---- MODULE Spec2Model ----
(***************************************************************************)
(* Model of the content-exporter: the HTTP export entry point              *)
(* (web.RequestHandler), the job engine (export.Job / export.FullExporter),*)
(* the Locker rendezvous and the Kafka listener (queue.Listener).          *)
(*                                                                         *)
(* Every goroutine is a process with a program counter; a step of the      *)
(* model is one statement (or one channel operation) of one goroutine.     *)
(* Unbuffered channel operations are joint steps of sender and receiver.   *)
(* A select with a time.After branch may take the timeout branch at any    *)
(* moment.                                                                 *)
(*                                                                         *)
(* Listener.paused, Terminator.ShutDownPrepared and Terminator.ShutDown    *)
(* are read without the lock (part_007:108,122,130-133,180,190-192).  Each *)
(* such read is a step of its own that yields the value the variable has   *)
(* at that moment; a read that yields an older value behaves as the same   *)
(* read taken earlier, which for the polling loops is one more turn of     *)
(* the loop.                                                               *)
(*                                                                         *)
(* export.Locker and export.Terminator are declared outside the files at   *)
(* hand; Locker.Locked and Locker.Acked are unbuffered, a Terminator's     *)
(* Quit channel has capacity QuitCap and Cleanup is a sync.Once.           *)
(***************************************************************************)
EXTENDS Integers, Sequences, FiniteSets, TLC

\* ---------------------------------------------------------------- bounds
\* number of POST /export requests the environment issues
NumRequests == 2
\* longest stub stream an Inquire call hands back to the job under study
MaxDocs == 3
\* longest stub stream when several requests run side by side
WebDocs == 1
\* FullExporter.nrOfConcurrentWorkers (20 in main.go), scaled down
NrOfWorkers == 2
\* number of messages the consumer delivers to handleMessage
MaxMsgs == 2
\* Listener's maxGoRoutines (capacity of the workers semaphore), scaled down
MaxGoRoutines == 1
\* longest publication list in the payload of a message
MaxPubs == 2

Requests == 1..NumRequests
UUIDs == {"u1", "u2"}
TidSeq == <<"t1", "t2">>
Tids == {TidSeq[i] : i \in DOMAIN TidSeq}
Msgs == 1..MaxMsgs
\* enough messages, each with a transaction id of its own, to fill the
\* workers, the hand of handleNotifications, received and the hand of
\* handleMessage, and one more
BackMsgs == MaxGoRoutines + 4
AllMsgs == 1..BackMsgs
AllTidSeq == <<"t1", "t2", "t3", "t4", "t5", "t6">>
AllTids == {AllTidSeq[i] : i \in DOMAIN AllTidSeq}

STARTING == "Starting"
RUNNING == "Running"
FINISHED == "Finished"

UPDATE == "UPDATE"
DELETE == "DELETE"

NoJob == [exists |-> FALSE]
NoNotification == [made |-> FALSE]
\* a consumer that calls handleMessage from two threads at once
HandlersConcurrent == {"h1", "h2"}

\* the consumer calls handleMessage from one thread
Handlers == {"h1"}
\* the threads of a consumer that calls handleMessage concurrently
Callers == {"h1", "h2"}
\* capacity of Listener.received (make(chan *Notification, 1))
ReceivedCap == 1
\* capacity of a Terminator's Quit channel
QuitCap == 1
NoDoc == "none"

VARIABLES
    isIncExportEnabled, \* RequestHandler.isIncExportEnabled
    pc,                 \* per request: position of Export / startExport / RunExport
    isFull,             \* per request: the fullExport query flag
    hasIds,             \* per request: getCandidateUUIDs returned a list of ids
    jobs,               \* FullExporter.jobs, keyed by the request that created the job
    docs,               \* per job: what the docs channel still delivers before it is closed
    total,              \* per job: number of stubs the stream emits in all
    doc,                \* per job: the loop variable doc of RunExport
    slots,              \* per job: tokens held in the workers semaphore of RunExport
    wg,                 \* per job: counter of job.wg
    jw,                 \* per job: the worker goroutines alive, [k, uuid, st]
    taken,              \* per job: stubs received from docs, in order
    calls,              \* per job: exportFn calls made, [k, uuid, err, n]: the n-th call for stub k
    lpc,                \* position of the main loop of Listener.Start
    paused,             \* Listener.paused
    lockWindow,         \* an initiator holds the lock: acked received, false not sent since
    quitCh,             \* tokens buffered in Listener.terminator.Quit
    sdPrepared,         \* Listener.terminator.ShutDownPrepared
    shutDown,           \* Listener.terminator.ShutDown
    cleanupDone,        \* Listener.terminator.Cleanup (sync.Once) has run
    received,           \* Listener.received: the buffered notifications
    receivedClosed,     \* Listener.received has been closed
    pending,            \* Listener.pending: tid -> notification (0: no entry)
    ntf,                \* the Notification made from each delivered message
    delivered,          \* number of messages the consumer has handed to handleMessage
    consumerClosed,     \* messageConsumer.Close() has been called
    hpc,                \* per consumer thread: position in handleMessage
    hn,                 \* per consumer thread: the message in hand (0: none)
    dpc,                \* position of handleNotifications
    dn,                 \* the notification handleNotifications holds (0: none)
    nw,                 \* per notification: position of its worker goroutine
                        \* (none, delay, export, delete, terminated, unsupported,
                        \* unpend, release, done)
    wslots,             \* tokens held in Listener.workers
    stpc,               \* position of Listener.Stop
    mapCall,            \* the last call of MessageMapper.mapNotification: the
                        \* mapper, the message and what was returned
    exportCall,         \* a call of Exporter.Export: its arguments, the calls it
                        \* has made of the fetcher and the updater, its result
    inquiry             \* a call of Inquirer.Inquire: what the finder returned,
                        \* the cursor, the stub stream, what Inquire returned

runVars == <<docs, total, doc, slots, wg, jw, taken, calls>>
lsnVars == <<lpc, paused>>
\* what the steps of the requests and of the main loop of Start leave alone
ntfVars == <<mapCall, exportCall, inquiry, quitCh, sdPrepared, shutDown, cleanupDone, received, receivedClosed, pending, ntf,
            delivered, consumerClosed, hpc, hn, dpc, dn, nw, wslots, stpc>>
envVars == <<isIncExportEnabled, isFull, hasIds, ntfVars>>
\* what the steps of the listener's goroutines leave alone
webVars == <<isIncExportEnabled, isFull, hasIds, pc, jobs, runVars, lockWindow, mapCall,
            exportCall, inquiry>>
vars == <<isIncExportEnabled, pc, isFull, hasIds, jobs, docs, total, doc, slots, wg, jw, taken, calls,
          lpc, paused, lockWindow, quitCh, sdPrepared, shutDown, cleanupDone, received,
          receivedClosed, pending, ntf, delivered, consumerClosed, hpc, hn, dpc, dn, nw,
          wslots, stpc, mapCall, exportCall, inquiry>>

RECURSIVE SeqsUpTo(_, _)
SeqsUpTo(S, n) ==
    IF n = 0 THEN {<<>>}
    ELSE LET shorter == SeqsUpTo(S, n - 1)
         IN shorter \cup {Append(s, x) : s \in {t \in shorter : Len(t) = n - 1}, x \in S}

\* export.NewJob
NewJob(nrWorker, isFullExport) ==
    [exists |-> TRUE, nrWorker |-> nrWorker, isFullExport |-> isFullExport,
     Count |-> 0, Progress |-> 0, Failed |-> <<>>, Status |-> STARTING,
     ErrorMessage |-> ""]

\* FullExporter.GetRunningJobs
GetRunningJobs == {r \in Requests : jobs[r].exists /\ jobs[r].Status = RUNNING}

\* FullExporter.IsFullExportRunning
IsFullExportRunning ==
    \E r \in Requests : jobs[r].exists /\ jobs[r].isFullExport /\ jobs[r].Status # FINISHED

\* FullExporter.GetWorkerCount
GetWorkerCount == NrOfWorkers

\* Job.Copy: a new Job value built from five fields of the job; every
\* field the literal does not name has its zero value
Copy(job) ==
    [exists |-> TRUE, nrWorker |-> 0, isFullExport |-> FALSE,
     Count |-> job.Count, Progress |-> job.Progress, Failed |-> job.Failed,
     Status |-> job.Status, ErrorMessage |-> ""]

\* FullExporter.GetJob, for the id of the job request r created
GetJob(r) == IF jobs[r].exists THEN Copy(jobs[r]) ELSE NoJob

NoCall == [made |-> FALSE]

Init ==
    /\ isIncExportEnabled \in BOOLEAN
    /\ pc = [r \in Requests |-> "idle"]
    /\ isFull = [r \in Requests |-> FALSE]
    /\ hasIds = [r \in Requests |-> FALSE]
    /\ jobs = [r \in Requests |-> NoJob]
    /\ docs = [r \in Requests |-> <<>>]
    /\ total = [r \in Requests |-> 0]
    /\ doc = [r \in Requests |-> NoDoc]
    /\ slots = [r \in Requests |-> 0]
    /\ wg = [r \in Requests |-> 0]
    /\ jw = [r \in Requests |-> {}]
    /\ taken = [r \in Requests |-> <<>>]
    /\ calls = [r \in Requests |-> {}]
    /\ lpc = "new"
    /\ paused = FALSE
    /\ lockWindow = FALSE
    /\ quitCh = 0
    /\ sdPrepared = FALSE
    /\ shutDown = FALSE
    /\ cleanupDone = FALSE
    /\ received = <<>>
    /\ receivedClosed = FALSE
    /\ pending = [t \in AllTids |-> 0]
    /\ ntf = [n \in AllMsgs |-> NoNotification]
    /\ delivered = 0
    /\ consumerClosed = FALSE
    /\ hpc = [h \in Callers |-> "idle"]
    /\ hn = [h \in Callers |-> 0]
    /\ dpc = "off"
    /\ dn = 0
    /\ nw = [n \in AllMsgs |-> "none"]
    /\ wslots = 0
    /\ stpc = "idle"
    /\ mapCall = NoCall
    /\ exportCall = NoCall
    /\ inquiry = NoCall

\* ------------------------------------------------ RequestHandler.Export
\* the request bodies: not JSON, JSON without an ids field, an ids field
\* that is not a string, an ids field holding a comma-separated string
Bodies == {"empty", "noIds", "idsNotString", "ids"}

\* resources.go:230-251 (getCandidateUUIDs): TRUE when a list of ids is
\* returned, FALSE when an error is
getCandidateUUIDs(body) == body = "ids"

\* a validation that only refuses a request with neither ids nor the flag
BadRequestOnlyNeither(ids, isFullExport) == ~ids /\ ~isFullExport

\* resources.go:119-130: no ids without the full export flag, or ids
\* together with the flag
BadRequest(ids, isFullExport) == (~ids /\ ~isFullExport) \/ (ids /\ isFullExport)

\* a handler that goes straight on to create the job
AfterValidationNoLock(enabled) == "create"

\* resources.go:132: the Locker handshake is run only when incremental
\* export is enabled
AfterValidation(enabled) == IF enabled THEN "lockSend" ELSE "create"

\* resources.go:111-130: the running-jobs check, then the validation of the
\* request (fullExport query flag, ids body field)
ExportBegin(r) ==
    /\ pc[r] = "idle"
    /\ IF GetRunningJobs # {}
       THEN /\ pc' = [pc EXCEPT ![r] = "rejected400"]
            /\ UNCHANGED <<isFull, hasIds>>
       ELSE \E isFullExport \in BOOLEAN, body \in Bodies :
               LET ids == getCandidateUUIDs(body)
               IN /\ isFull' = [isFull EXCEPT ![r] = isFullExport]
                  /\ hasIds' = [hasIds EXCEPT ![r] = ids]
                  /\ pc' = [pc EXCEPT ![r] =
                              IF BadRequest(ids, isFullExport)
                              THEN "rejected400"
                              ELSE AfterValidation(isIncExportEnabled)]
    /\ UNCHANGED <<isIncExportEnabled, ntfVars, jobs, runVars, lsnVars, lockWindow>>

\* a handler that goes on to the handshake after its 400 answer
SendsTrueWhenRejected(at) == at \in {"lockSend", "rejected400"}

\* resources.go:112-115,121-131: the three 400 answers return; only a
\* handler that got past them reaches the send of true on locked
SendsTrue(at) == at = "lockSend"

\* resources.go:134 with unnamed/part_007:80-83: h.locker.Locked <- true is
\* received by the main loop of Start
LockSend(r) ==
    /\ SendsTrue(pc[r])
    /\ lpc = "select"
    /\ pc' = [pc EXCEPT ![r] = "ackWait"]
    /\ lpc' = "pause"
    /\ UNCHANGED <<envVars, jobs, runVars, paused, lockWindow>>

\* a handler that carries on after a timeout of the handshake
AfterLockTimeoutProceeds == "create"

\* resources.go:136-140,146-150: on a timeout of the handshake the handler
\* answers 503 and returns
AfterLockTimeout == "rejected503"

\* resources.go:136-140: the 3 s budget of the send runs out
LockSendTimeout(r) ==
    /\ pc[r] = "lockSend"
    /\ pc' = [pc EXCEPT ![r] = AfterLockTimeout]
    /\ UNCHANGED <<envVars, jobs, runVars, lsnVars, lockWindow>>

\* resources.go:144 with unnamed/part_007:85: the acked token passes from
\* the listener to the initiator
AckRecv(r) ==
    /\ pc[r] = "ackWait"
    /\ lpc = "ack"
    /\ pc' = [pc EXCEPT ![r] = "create"]
    /\ lpc' = "select"
    /\ lockWindow' = TRUE
    /\ UNCHANGED <<envVars, jobs, runVars, paused>>

\* resources.go:146-150: the 20 s budget of the receive runs out
AckTimeout(r) ==
    /\ pc[r] = "ackWait"
    /\ pc' = [pc EXCEPT ![r] = AfterLockTimeout]
    /\ UNCHANGED <<envVars, jobs, runVars, lsnVars, lockWindow>>

\* resources.go:156-163: NewJob, AddJob, go startExport
CreateJob(r) ==
    /\ pc[r] = "create"
    /\ jobs' = [jobs EXCEPT ![r] = NewJob(GetWorkerCount, isFull[r])]
    /\ pc' = [pc EXCEPT ![r] = "start"]
    /\ UNCHANGED <<envVars, runVars, lsnVars, lockWindow>>

\* ------------------------------------------- RequestHandler.startExport
\* resources.go:195: the call of h.inquirer.Inquire
InquireCall(r) ==
    /\ pc[r] = "start"
    /\ pc' = [pc EXCEPT ![r] = "inquiring"]
    /\ UNCHANGED <<envVars, jobs, runVars, lsnVars, lockWindow>>

\* a startExport without the deferred send
AfterJobWithoutRelease == "done"

\* where startExport goes when it returns: the deferred send of false
AfterJob == IF isIncExportEnabled THEN "unlock" ELSE "done"

\* an error branch without its return: startExport falls through to RunExport
AfterInquireErrorFallThrough == "run"

\* resources.go:201: the error branch of startExport returns
AfterInquireError == AfterJob

\* resources.go:196-202: Inquire returned an error
InquireError(r) ==
    /\ pc[r] = "inquiring"
    /\ jobs' = [jobs EXCEPT ![r].ErrorMessage = "Failed to read content from mongo",
                             ![r].Status = FINISHED]
    /\ pc' = [pc EXCEPT ![r] = AfterInquireError]
    /\ UNCHANGED <<envVars, runVars, lsnVars, lockWindow>>

\* resources.go:195,203-204: Inquire returned one of the given streams and
\* one of the given counts
InquireResult(r, streams, counts) ==
    /\ pc[r] = "inquiring"
    /\ \E stream \in streams, count \in counts :
          /\ docs' = [docs EXCEPT ![r] = stream]
          /\ total' = [total EXCEPT ![r] = Len(stream)]
          /\ jobs' = [jobs EXCEPT ![r].Count = count]
    /\ pc' = [pc EXCEPT ![r] = "run"]
    /\ UNCHANGED <<envVars, doc, slots, wg, jw, taken, calls, lsnVars, lockWindow>>

\* resources.go:195,203-204: Inquire returned a stream and a count; the
\* count comes from a query of its own (mongo/inquirer.go:155-160)
InquireReturn(r, maxLen) == InquireResult(r, SeqsUpTo(UUIDs, maxLen), 0..maxLen)

\* resources.go:180 with unnamed/part_007:80,90: the deferred
\* h.locker.Locked <- false is received by the main loop of Start
Unlock(r) ==
    /\ pc[r] = "unlock"
    /\ lpc = "select"
    /\ pc' = [pc EXCEPT ![r] = "done"]
    /\ lpc' = "resume"
    /\ lockWindow' = FALSE
    /\ UNCHANGED <<envVars, jobs, runVars, paused>>

\* ------------------------------------------------------- Job.RunExport
\* healthcheck.go:283-284
RunStart(r) ==
    /\ pc[r] = "run"
    /\ jobs' = [jobs EXCEPT ![r].Status = RUNNING]
    /\ pc' = [pc EXCEPT ![r] = "recv"]
    /\ UNCHANGED <<envVars, runVars, lsnVars, lockWindow>>

\* healthcheck.go:286: doc, ok := <-docs
RunRecv(r) ==
    /\ pc[r] = "recv"
    /\ IF docs[r] # <<>>
       THEN /\ doc' = [doc EXCEPT ![r] = Head(docs[r])]
            /\ docs' = [docs EXCEPT ![r] = Tail(docs[r])]
            /\ taken' = [taken EXCEPT ![r] = Append(taken[r], Head(docs[r]))]
            /\ pc' = [pc EXCEPT ![r] = "acquire"]
       ELSE /\ pc' = [pc EXCEPT ![r] = "wait"]
            /\ UNCHANGED <<doc, docs, taken>>
    /\ UNCHANGED <<envVars, jobs, total, slots, wg, jw, calls, lsnVars, lockWindow>>

\* a send on a semaphore channel that never blocks
CanAcquireUnbounded(held, capacity) == TRUE

\* healthcheck.go:295: workers <- struct{}{} blocks while the semaphore is full
CanAcquire(held, capacity) == held < capacity

RunAcquire(r) ==
    /\ pc[r] = "acquire"
    /\ CanAcquire(slots[r], jobs[r].nrWorker)
    /\ slots' = [slots EXCEPT ![r] = @ + 1]
    /\ pc' = [pc EXCEPT ![r] = "spawn"]
    /\ UNCHANGED <<envVars, jobs, docs, total, doc, wg, jw, taken, calls,
                   lsnVars, lockWindow>>

\* a progress counter that counts a stub on receipt and again on dispatch
IncProgressTwice(p) == p + 2

\* healthcheck.go:297: job.Progress++
IncProgress(p) == p + 1

\* a goroutine that closes over the doc of the first iteration
DocOfFirstIteration(r) == taken[r][1]

\* healthcheck.go:286,299-302: doc is declared inside the loop, so the
\* goroutine closes over the doc of its own iteration
DocOf(r) == doc[r]

\* healthcheck.go:297-299: job.Progress++, job.wg.Add(1), go func()
RunSpawn(r) ==
    /\ pc[r] = "spawn"
    /\ jobs' = [jobs EXCEPT ![r].Progress = IncProgress(@)]
    /\ wg' = [wg EXCEPT ![r] = @ + 1]
    /\ jw' = [jw EXCEPT ![r] = @ \cup {[k |-> Len(taken[r]), uuid |-> DocOf(r), st |-> "sleep"]}]
    /\ doc' = [doc EXCEPT ![r] = NoDoc]
    /\ pc' = [pc EXCEPT ![r] = "recv"]
    /\ UNCHANGED <<envVars, docs, total, slots, taken, calls, lsnVars, lockWindow>>

\* a Wait that returns at once
WaitDoneAtOnce(counter) == TRUE

\* healthcheck.go:288: job.wg.Wait() blocks until the counter is zero
WaitDone(counter) == counter = 0

\* healthcheck.go:288-292: job.wg.Wait(), job.Status = FINISHED, return
RunFinish(r) ==
    /\ pc[r] = "wait"
    /\ WaitDone(wg[r])
    /\ jobs' = [jobs EXCEPT ![r].Status = FINISHED]
    /\ pc' = [pc EXCEPT ![r] = AfterJob]
    /\ UNCHANGED <<envVars, runVars, lsnVars, lockWindow>>

\* ----------------------------------------- the worker of Job.RunExport
\* healthcheck.go:301-302: the throttle sleep ends and export is called
WorkerCall(r) ==
    /\ \E w \in jw[r] :
          /\ w.st = "sleep"
          /\ jw' = [jw EXCEPT ![r] = (@ \ {w}) \cup {[w EXCEPT !.st = "export"]}]
    /\ UNCHANGED <<envVars, pc, jobs, docs, total, doc, slots, wg, taken, calls,
                   lsnVars, lockWindow>>

\* a worker that drops the error of export
AfterExportDropped(err) == "release"

\* healthcheck.go:302,313: the worker records the failure only if export
\* returned an error
AfterExport(err) == IF err THEN "append" ELSE "release"

\* healthcheck.go:302: export(tid, doc) returns
WorkerReturn(r) ==
    /\ \E w \in jw[r], err \in BOOLEAN :
          /\ w.st = "export"
          /\ calls' = [calls EXCEPT ![r] = @ \cup {[k |-> w.k, uuid |-> w.uuid, err |-> err,
                                                    n |-> 1 + Cardinality({c \in @ : c.k = w.k})]}]
          /\ jw' = [jw EXCEPT ![r] = (@ \ {w}) \cup {[w EXCEPT !.st = AfterExport(err)]}]
    /\ UNCHANGED <<envVars, pc, jobs, docs, total, doc, slots, wg, taken,
                   lsnVars, lockWindow>>

\* the workers of the job of request r that hold job.lock
LockHolders(r) == {w \in jw[r] : w.st = "locked"}

\* healthcheck.go:309: job.lock.Lock()
WorkerLock(r) ==
    /\ \E w \in jw[r] :
          /\ w.st = "append"
          /\ LockHolders(r) = {}
          /\ jw' = [jw EXCEPT ![r] = (@ \ {w}) \cup {[w EXCEPT !.st = "locked"]}]
    /\ UNCHANGED <<envVars, pc, jobs, docs, total, doc, slots, wg, taken, calls,
                   lsnVars, lockWindow>>

\* healthcheck.go:310-311: job.Failed = append(job.Failed, doc.UUID),
\* job.lock.Unlock()
WorkerAppend(r) ==
    /\ \E w \in jw[r] :
          /\ w.st = "locked"
          /\ jobs' = [jobs EXCEPT ![r].Failed = Append(@, w.uuid)]
          /\ jw' = [jw EXCEPT ![r] = (@ \ {w}) \cup {[w EXCEPT !.st = "release"]}]
    /\ UNCHANGED <<envVars, pc, docs, total, doc, slots, wg, taken, calls,
                   lsnVars, lockWindow>>

\* a worker that ends without the receive from workers
ReleaseSlotForgotten(held) == held

\* healthcheck.go:313: <-workers takes one token out of the semaphore
ReleaseSlot(held) == held - 1

\* healthcheck.go:313 and 300: <-workers, then the deferred job.wg.Done()
WorkerRelease(r) ==
    /\ \E w \in jw[r] :
          /\ w.st = "release"
          /\ slots' = [slots EXCEPT ![r] = ReleaseSlot(@)]
          /\ wg' = [wg EXCEPT ![r] = @ - 1]
          /\ jw' = [jw EXCEPT ![r] = @ \ {w}]
    /\ UNCHANGED <<envVars, pc, jobs, docs, total, doc, taken, calls,
                   lsnVars, lockWindow>>

\* ------------------------------------------- MessageMapper.mapNotification
\* A string is a sequence of tokens; SYNTH is the token "SYNTH".  An
\* optional JSON field, and a Go slice that may be nil, is a sequence of
\* length 0 (absent, nil) or 1 (the value).
None == <<>>
Some(v) == <<v>>

\* the transaction ids of messages: with the prefix, plain, and with SYNTH
\* elsewhere than at the start
MapTids == {<<"SYNTH", "t1">>, <<"t1">>, <<"t1", "SYNTH">>}

\* the origins and paths a ContentURI is made of; a path token that is in
\* UUIDs is a UUID
Origins == {"upp-content-validator", "elsewhere"}
Paths == {<<"content">>, <<"content", "u1">>, <<"content", "u2", "u1">>}
ContentURIs == [origin : Origins, path : Paths]

Publications == {"p1", "p2"}
ContentTypes == {"Article", "Video"}

\* the payload object of a message body, field by field as the JSON has it
Payloads ==
    [deleted : {None, Some(TRUE), Some(FALSE)},
     canBeDistributed : {None, Some("yes"), Some("no")},
     type : {None} \cup {Some(t) : t \in ContentTypes},
     publication : {None} \cup {Some(l) : l \in SeqsUpTo(Publications, MaxPubs)}]

\* message bodies: text that is not JSON, or an event object
Bodies4Map ==
    {[json |-> FALSE]} \cup [json : {TRUE}, ContentURI : ContentURIs, Payload : Payloads]

Messages == [tid : MapTids, Body : Bodies4Map]

\* NewMessageMapper: the mappers, by their publication allow-list
Mappers ==
    [originAllowlist : {{"upp-content-validator"}},
     allowedContentTypes : {{"Article"}},
     allowedPublishUUIDs : {{}, {"p1"}}]

\* strings.HasPrefix
HasPrefix(str, prefix) ==
    /\ Len(str) >= Len(prefix)
    /\ SubSeq(str, 1, Len(prefix)) = prefix

\* the value of an optional JSON field, or the zero value of its Go type
OrZero(field, zero) == IF field = None THEN zero ELSE field[1]

\* json.Unmarshal into an event (mapper.go:137-165,249): a missing field
\* keeps its zero value, a missing or null array stays a nil slice, an
\* array (an empty one too) becomes a slice that is not nil
Unmarshal(body) ==
    IF ~body.json THEN [err |-> TRUE]
    ELSE [err |-> FALSE,
          event |-> [ContentURI |-> body.ContentURI,
                     Payload |-> [Deleted |-> OrZero(body.Payload.deleted, FALSE),
                                  CanBeDistributed |-> OrZero(body.Payload.canBeDistributed, ""),
                                  Type |-> OrZero(body.Payload.type, ""),
                                  Publication |-> body.Payload.publication]]]

\* originAllowlistRegex.MatchString
MatchString(allowlist, uri) == uri.origin \in allowlist

\* uuidRegexp.FindString: the leftmost UUID of the string, "" if none
FindString(uri) ==
    LET hits == {i \in DOMAIN uri.path : uri.path[i] \in UUIDs}
    IN IF hits = {} THEN ""
       ELSE uri.path[CHOOSE i \in hits : \A j \in hits : i <= j]

\* mapper.go:196-216 (newFilterError, newFilterTypeError, newFilterURIError)
newFilterError(reason) == [filter |-> TRUE, reason |-> reason]

\* fmt.Errorf: an error that is no filterError
Errorf(reason) == [filter |-> FALSE, reason |-> reason]

\* the two results of a function returning (*Notification, error)
Result(n, err) == [n |-> n, err |-> err]

\* mapper.go:167-190 (event.toNotification)
toNotification(e, tid) ==
    LET uuid == FindString(e.ContentURI)
        evType == IF e.Payload.Deleted THEN DELETE ELSE UPDATE
    IN IF uuid = ""
       THEN Result(None, Some(Errorf("contentURI does not contain a UUID")))
       ELSE Result(Some([Stub |-> [UUID |-> uuid,
                                   CanBeDistributed |-> e.Payload.CanBeDistributed,
                                   ContentType |-> e.Payload.Type,
                                   Publication |-> e.Payload.Publication],
                         EvType |-> evType,
                         Tid |-> tid]),
                   None)

\* mapper.go:266-276: Stub.Publication is not nil and none of its entries
\* is in allowedPublishUUIDs
PublicationRefused(m, publication) ==
    /\ publication # None
    /\ ~\E i \in DOMAIN publication[1] : publication[1][i] \in m.allowedPublishUUIDs

\* mapper.go:241-283 (MessageMapper.mapNotification)
mapNotification(m, msg) ==
    LET tid == msg.tid
        decoded == Unmarshal(msg.Body)
        pubEvent == decoded.event
        built == toNotification(pubEvent, tid)
        notification == built.n[1]
    IN IF HasPrefix(tid, <<"SYNTH">>)
       THEN Result(None, Some(newFilterError("synthetic publication")))
       ELSE IF decoded.err
       THEN Result(None, Some(Errorf("error unmarshaling event")))
       ELSE IF ~MatchString(m.originAllowlist, pubEvent.ContentURI)
       THEN Result(None, Some(newFilterError("uri not allowed")))
       ELSE IF built.err # None
       THEN Result(None, Some(Errorf("error building notification")))
       ELSE IF notification.Stub.ContentType \notin m.allowedContentTypes
       THEN Result(None, Some(newFilterError("type not allowed")))
       ELSE IF PublicationRefused(m, notification.Stub.Publication)
       THEN Result(None, Some(newFilterError("Unsupported publication")))
       ELSE IF /\ notification.Stub.CanBeDistributed # ""
               /\ notification.Stub.CanBeDistributed # "yes"
       THEN Result(None, Some(newFilterError("cannot be distributed")))
       ELSE Result(Some(notification), None)

\* a mapper is given a message; the function keeps no state between calls,
\* so one call per behaviour covers them all
MapNotification ==
    /\ ~mapCall.made
    /\ \E m \in Mappers, msg \in Messages :
          mapCall' = [made |-> TRUE, mapper |-> m, msg |-> msg, res |-> mapNotification(m, msg)]
    /\ UNCHANGED <<isIncExportEnabled, isFull, hasIds, pc, jobs, runVars, lockWindow,
                   lsnVars, quitCh, sdPrepared, shutDown, cleanupDone, received,
                   receivedClosed, pending, ntf, delivered, consumerClosed, hpc, hn, dpc, dn,
                   nw, wslots, stpc, exportCall, inquiry>>

\* ------------------------------------------------------ Listener.Start
\* unnamed/part_007:70-71: register handleMessage, go handleNotifications
LStart ==
    /\ isIncExportEnabled
    /\ lpc = "new"
    /\ lpc' = "select"
    /\ dpc' = "recv"
    /\ UNCHANGED <<webVars, paused, quitCh, sdPrepared, shutDown, cleanupDone, received,
                   receivedClosed, pending, ntf, delivered, consumerClosed, hpc, hn, dn, nw,
                   wslots, stpc>>

\* unnamed/part_007:83 (pauseConsuming)
LPause ==
    /\ lpc = "pause"
    /\ paused' = TRUE
    /\ lpc' = "ack"
    /\ UNCHANGED <<envVars, pc, jobs, runVars, lockWindow>>

\* unnamed/part_007:87-88: the 3 s budget of the ack send runs out
LAckTimeout ==
    /\ lpc = "ack"
    /\ lpc' = "select"
    /\ UNCHANGED <<envVars, pc, jobs, runVars, paused, lockWindow>>

\* unnamed/part_007:91 (resumeConsuming)
LResume ==
    /\ lpc = "resume"
    /\ paused' = FALSE
    /\ lpc' = "select"
    /\ UNCHANGED <<envVars, pc, jobs, runVars, lockWindow>>

\* unnamed/part_007:93-95: the main loop takes the token from terminator.Quit
LQuit ==
    /\ lpc = "select"
    /\ quitCh > 0
    /\ quitCh' = quitCh - 1
    /\ lpc' = "deferred"
    /\ UNCHANGED <<webVars, paused, sdPrepared, shutDown, cleanupDone, received,
                   receivedClosed, pending, ntf, delivered, consumerClosed, hpc, hn, dpc, dn,
                   nw, wslots, stpc>>

\* unnamed/part_007:73-74: the deferred function sets ShutDownPrepared
LPrepareShutDown ==
    /\ lpc = "deferred"
    /\ sdPrepared' = TRUE
    /\ lpc' = "terminate"
    /\ UNCHANGED <<webVars, paused, quitCh, shutDown, cleanupDone, received,
                   receivedClosed, pending, ntf, delivered, consumerClosed, hpc, hn, dpc, dn,
                   nw, wslots, stpc>>

\* the notifications that have an entry in Listener.pending
Pending == {pending[t] : t \in AllTids} \ {0}

\* unnamed/part_007:224-232 (terminatePendingNotifications): under the read
\* lock, every pending notification gets a token on its Quit channel, which is
\* then closed
LTerminate ==
    /\ lpc = "terminate"
    /\ \A n \in Pending : ntf[n].quit < QuitCap
    /\ ntf' = [n \in AllMsgs |->
                 IF n \in Pending THEN [ntf[n] EXCEPT !.quit = @ + 1, !.quitClosed = TRUE]
                 ELSE ntf[n]]
    /\ lpc' = "exited"
    /\ UNCHANGED <<webVars, paused, quitCh, sdPrepared, shutDown, cleanupDone, received,
                   receivedClosed, pending, delivered, consumerClosed, hpc, hn, dpc, dn,
                   nw, wslots, stpc>>

\* ------------------------------------------------------- Listener.Stop
\* unnamed/part_007:101: l.terminator.Quit <- struct{}{}
StopSendQuit ==
    /\ isIncExportEnabled
    /\ stpc = "idle"
    /\ quitCh < QuitCap
    /\ quitCh' = quitCh + 1
    /\ stpc' = "close"
    /\ UNCHANGED <<webVars, lsnVars, sdPrepared, shutDown, cleanupDone, received,
                   receivedClosed, pending, ntf, delivered, consumerClosed, hpc, hn, dpc, dn,
                   nw, wslots>>

\* unnamed/part_007:103-105: l.messageConsumer.Close(); no message is
\* handed to handleMessage afterwards
StopCloseConsumer ==
    /\ stpc = "close"
    /\ consumerClosed' = TRUE
    /\ stpc' = "poll"
    /\ UNCHANGED <<webVars, lsnVars, quitCh, sdPrepared, shutDown, cleanupDone, received,
                   receivedClosed, pending, ntf, delivered, hpc, hn, dpc, dn, nw, wslots>>

\* unnamed/part_007:107-112: Stop returns once it reads ShutDown = true
StopReturn ==
    /\ stpc = "poll"
    /\ shutDown
    /\ stpc' = "returned"
    /\ UNCHANGED <<webVars, lsnVars, quitCh, sdPrepared, shutDown, cleanupDone, received,
                   receivedClosed, pending, ntf, delivered, consumerClosed, hpc, hn, dpc, dn,
                   nw, wslots>>

\* ---------------------------------------------- Listener.handleMessage
\* the transaction ids the n-th message may carry: t1..tn (the ids are
\* interchangeable, so a fresh id is always the next unused one)
TidsOf(n) == {TidSeq[i] : i \in 1..(IF n < Len(TidSeq) THEN n ELSE Len(TidSeq))}

\* the consumer hands the next message to handleMessage, up to the
\* cap-th message
Deliver(h, cap) ==
    /\ lpc # "new"
    /\ ~consumerClosed
    /\ hpc[h] = "idle"
    /\ delivered < cap
    /\ delivered' = delivered + 1
    /\ hn' = [hn EXCEPT ![h] = delivered + 1]
    /\ hpc' = [hpc EXCEPT ![h] = "entry"]
    /\ UNCHANGED <<webVars, lsnVars, quitCh, sdPrepared, shutDown, cleanupDone, received,
                   receivedClosed, pending, ntf, consumerClosed, dpc, dn, nw, wslots, stpc>>

HDeliver(h) == Deliver(h, MaxMsgs)

\* a Once that runs its function at every call
OnceDoAlways(done) == TRUE

\* sync.Once: Do runs the function unless an earlier Do has run it
OnceDo(done) == ~done

\* unnamed/part_007:117: close(l.received) of a channel that is closed
\* already panics
ClosePanics == OnceDo(cleanupDone) /\ receivedClosed

\* where a handleMessage call is after l.cleanup()
AfterCleanup == IF ClosePanics THEN "closePanic" ELSE "idle"

\* unnamed/part_007:115-119 (cleanup): the Once closes received
Cleanup ==
    /\ cleanupDone' = TRUE
    /\ receivedClosed' = (receivedClosed \/ OnceDo(cleanupDone))

\* a handleMessage that does not look at ShutDownPrepared on entry
EntryReturnsNever(prepared) == FALSE

\* unnamed/part_007:122: if l.terminator.ShutDownPrepared
EntryReturns(prepared) == prepared

\* unnamed/part_007:122-125
HEntry(h) ==
    /\ hpc[h] = "entry"
    /\ IF EntryReturns(sdPrepared)
       THEN /\ Cleanup
            /\ hpc' = [hpc EXCEPT ![h] = AfterCleanup]
            /\ hn' = [hn EXCEPT ![h] = 0]
       ELSE /\ hpc' = [hpc EXCEPT ![h] = "pauseCond"]
            /\ UNCHANGED <<cleanupDone, receivedClosed, hn>>
    /\ UNCHANGED <<webVars, lsnVars, quitCh, sdPrepared, shutDown, received, pending, ntf,
                   delivered, consumerClosed, dpc, dn, nw, wslots, stpc>>

\* main.go:387: the mapper of the listener, with the default (empty)
\* publication allow-list
ListenerMapper ==
    [originAllowlist |-> {"upp-content-validator"},
     allowedContentTypes |-> {"Article"},
     allowedPublishUUIDs |-> {}]

\* the messages the consumer may deliver as its n-th: an update or a
\* delete of an article under one of the tids of TidsOf(n), or a synthetic
\* publication
ListenerMessages(n) ==
    {[tid |-> tid,
      Body |-> [json |-> TRUE,
                ContentURI |-> [origin |-> "upp-content-validator",
                                path |-> <<"content", "u1">>],
                Payload |-> [deleted |-> deleted, canBeDistributed |-> None,
                             type |-> Some("Article"), publication |-> None]]] :
        tid \in {<<t>> : t \in TidsOf(n)} \cup {<<"SYNTH", "t1">>},
        deleted \in {None, Some(TRUE)}}

\* unnamed/part_007:130-132,142-153: the (unlocked) read of paused; when it
\* is false the message is mapped: on an error of mapNotification the
\* message is skipped, otherwise there is a Notification, of which the
\* listener uses the tid and the Quit channel of its new Terminator; msgs
\* are the messages the one in hand may be
PauseCond(h, msgs) ==
    /\ hpc[h] = "pauseCond"
    /\ IF paused
       THEN /\ hpc' = [hpc EXCEPT ![h] = "pauseBody"]
            /\ UNCHANGED <<hn, ntf>>
       ELSE \E msg \in msgs :
               LET mapped == mapNotification(ListenerMapper, msg)
               IN IF mapped.err # None
                  THEN /\ hpc' = [hpc EXCEPT ![h] = "idle"]
                       /\ hn' = [hn EXCEPT ![h] = 0]
                       /\ ntf' = ntf
                  ELSE /\ ntf' = [ntf EXCEPT ![hn[h]] =
                                    [made |-> TRUE, tid |-> mapped.n[1].Tid[1],
                                     quit |-> 0, quitClosed |-> FALSE]]
                       /\ hpc' = [hpc EXCEPT ![h] = "policy"]
                       /\ hn' = hn
    /\ UNCHANGED <<webVars, lsnVars, quitCh, sdPrepared, shutDown, cleanupDone, received,
                   receivedClosed, pending, delivered, consumerClosed, dpc, dn, nw,
                   wslots, stpc>>

HPauseCond(h) == PauseCond(h, ListenerMessages(hn[h]))

\* the n-th message when every message is an update of an article under a
\* transaction id of its own
FreshMessages(n) ==
    {[tid |-> <<AllTidSeq[n]>>,
      Body |-> [json |-> TRUE,
                ContentURI |-> [origin |-> "upp-content-validator",
                                path |-> <<"content", "u1">>],
                Payload |-> [deleted |-> None, canBeDistributed |-> None,
                             type |-> Some("Article"), publication |-> None]]]}

\* the answers of EvaluateContentPolicy: an error, skip = true, skip = false
PolicyResults == {"error", "skip", "pass"}

\* a handler that goes on unless the evaluator fails
AfterPolicySkipIgnored(res) == IF res = "error" THEN "idle" ELSE "insert"

\* unnamed/part_007:162-169: handleMessage returns when the evaluator
\* fails and when it answers skip
AfterPolicy(res) == IF res = "pass" THEN "insert" ELSE "idle"

\* what is left of a Notification that the policy evaluation refused
Refused == [made |-> FALSE, refused |-> TRUE]

\* unnamed/part_007:155-169: the call of EvaluateContentPolicy
HPolicy(h) ==
    /\ hpc[h] = "policy"
    /\ \E res \in PolicyResults :
          /\ hpc' = [hpc EXCEPT ![h] = AfterPolicy(res)]
          /\ hn' = [hn EXCEPT ![h] = IF AfterPolicy(res) = "idle" THEN 0 ELSE @]
          /\ ntf' = IF res = "pass" THEN ntf ELSE [ntf EXCEPT ![hn[h]] = Refused]
    /\ UNCHANGED <<webVars, lsnVars, quitCh, sdPrepared, shutDown, cleanupDone, received,
                   receivedClosed, pending, delivered, consumerClosed, dpc, dn, nw,
                   wslots, stpc>>

\* a pause loop that gives the message up at its first poll
AfterPausePollReturns(prepared) == "idle"

\* unnamed/part_007:132-138: the pause loop returns only when
\* ShutDownPrepared is set; otherwise it sleeps and reads paused again
AfterPausePoll(prepared) == IF prepared THEN "idle" ELSE "pauseCond"

\* unnamed/part_007:133-137: inside the pause loop
HPauseBody(h) ==
    /\ hpc[h] = "pauseBody"
    /\ IF sdPrepared THEN Cleanup ELSE UNCHANGED <<cleanupDone, receivedClosed>>
    /\ hpc' = [hpc EXCEPT ![h] = IF sdPrepared /\ ClosePanics THEN "closePanic"
                                  ELSE AfterPausePoll(sdPrepared)]
    /\ hn' = [hn EXCEPT ![h] = IF AfterPausePoll(sdPrepared) = "idle" THEN 0 ELSE @]
    /\ UNCHANGED <<webVars, lsnVars, quitCh, sdPrepared, shutDown, received, pending, ntf,
                   delivered, consumerClosed, dpc, dn, nw, wslots, stpc>>

\* unnamed/part_007:171-173: l.pending[n.Tid] = n under the lock
HInsert(h) ==
    /\ hpc[h] = "insert"
    /\ pending' = [pending EXCEPT ![ntf[hn[h]].tid] = hn[h]]
    /\ hpc' = [hpc EXCEPT ![h] = "send"]
    /\ UNCHANGED <<webVars, lsnVars, quitCh, sdPrepared, shutDown, cleanupDone, received,
                   receivedClosed, ntf, delivered, consumerClosed, hn, dpc, dn, nw, wslots, stpc>>

\* a received channel on which a send never blocks
CanSendUnbounded(buffered, capacity) == TRUE

\* unnamed/part_007:44,175: l.received <- n blocks while the buffer of
\* received is full
CanSend(buffered, capacity) == buffered < capacity

\* unnamed/part_007:175: l.received <- n; a send on the closed channel panics
HSend(h) ==
    /\ hpc[h] = "send"
    /\ IF receivedClosed
       THEN /\ hpc' = [hpc EXCEPT ![h] = "panic"]
            /\ received' = received
       ELSE /\ CanSend(Len(received), ReceivedCap)
            /\ received' = Append(received, hn[h])
            /\ hpc' = [hpc EXCEPT ![h] = "post"]
    /\ UNCHANGED <<webVars, lsnVars, quitCh, sdPrepared, shutDown, cleanupDone,
                   receivedClosed, pending, ntf, delivered, consumerClosed, hn, dpc, dn, nw,
                   wslots, stpc>>

\* a receive from a Quit channel is possible: a token is buffered or the
\* channel is closed
QuitReady(n) == ntf[n].quit > 0 \/ ntf[n].quitClosed

\* the Quit channel after a receive
QuitTaken(n) == [ntf EXCEPT ![n].quit = IF @ > 0 THEN @ - 1 ELSE 0]

\* unnamed/part_007:176-178: <-n.Quit, the message is abandoned
HQuit(h) ==
    /\ hpc[h] = "send"
    /\ QuitReady(hn[h])
    /\ ntf' = QuitTaken(hn[h])
    /\ hpc' = [hpc EXCEPT ![h] = "idle"]
    /\ hn' = [hn EXCEPT ![h] = 0]
    /\ UNCHANGED <<webVars, lsnVars, quitCh, sdPrepared, shutDown, cleanupDone, received,
                   receivedClosed, pending, delivered, consumerClosed, dpc, dn, nw, wslots, stpc>>

\* unnamed/part_007:180-182
HPost(h) ==
    /\ hpc[h] = "post"
    /\ IF sdPrepared THEN Cleanup ELSE UNCHANGED <<cleanupDone, receivedClosed>>
    /\ hpc' = [hpc EXCEPT ![h] = IF sdPrepared THEN AfterCleanup ELSE "idle"]
    /\ hn' = [hn EXCEPT ![h] = 0]
    /\ UNCHANGED <<webVars, lsnVars, quitCh, sdPrepared, shutDown, received, pending, ntf,
                   delivered, consumerClosed, dpc, dn, nw, wslots, stpc>>

\* ---------------------------------------- Listener.handleNotifications
\* unnamed/part_007:187: for n := range l.received
DRecv ==
    /\ dpc = "recv"
    /\ IF received # <<>>
       THEN /\ dn' = Head(received)
            /\ received' = Tail(received)
            /\ dpc' = "pauseCond"
       ELSE /\ receivedClosed
            /\ dpc' = "exit"
            /\ UNCHANGED <<dn, received>>
    /\ UNCHANGED <<webVars, lsnVars, quitCh, sdPrepared, shutDown, cleanupDone,
                   receivedClosed, pending, ntf, delivered, consumerClosed, hpc, hn, nw,
                   wslots, stpc>>

\* unnamed/part_007:190-196: the (unlocked) read of paused finds it false;
\* while it is true the loop sleeps and reads again
DPauseCond ==
    /\ dpc = "pauseCond"
    /\ ~paused
    /\ dpc' = "acquire"
    /\ UNCHANGED <<webVars, lsnVars, quitCh, sdPrepared, shutDown, cleanupDone, received,
                   receivedClosed, pending, ntf, delivered, consumerClosed, hpc, hn, dn, nw,
                   wslots, stpc>>

\* a dispatch loop that never waits for a free slot
CanDispatchUnbounded(held, capacity) == TRUE

\* unnamed/part_007:50,198: l.workers <- struct{}{} blocks while all
\* maxGoRoutines slots are taken
CanDispatch(held, capacity) == held < capacity

\* unnamed/part_007:198: l.workers <- struct{}{}
DAcquire ==
    /\ dpc = "acquire"
    /\ CanDispatch(wslots, MaxGoRoutines)
    /\ wslots' = wslots + 1
    /\ dpc' = "spawn"
    /\ UNCHANGED <<webVars, lsnVars, quitCh, sdPrepared, shutDown, cleanupDone, received,
                   receivedClosed, pending, ntf, delivered, consumerClosed, hpc, hn, dn, nw,
                   stpc>>

\* the values of Notification.EvType: EventType is a string type, of which
\* UPDATE and DELETE are the two named constants
EventTypes == {UPDATE, DELETE, "OTHER"}

\* a handler that makes every known event wait for the delay
WorkerEntryAllDelayed(evType) ==
    IF evType \in {UPDATE, DELETE} THEN "delay" ELSE "unsupported"

\* queue/notification.go:38-57: the switch of handleNotification: an UPDATE
\* waits for the delay, a DELETE calls exporter.Delete at once, any other
\* event type is unsupported
WorkerEntry(evType) ==
    CASE evType = UPDATE -> "delay"
      [] evType = DELETE -> "delete"
      [] OTHER -> "unsupported"

\* unnamed/part_007:199,208: go func(notification, log), which calls
\* handleNotification; the event type of the notification (UPDATE or
\* DELETE, as toNotification made it from the message) is first looked at
\* here
DSpawn ==
    /\ dpc = "spawn"
    /\ \E evType \in {UPDATE, DELETE} : nw' = [nw EXCEPT ![dn] = WorkerEntry(evType)]
    /\ dn' = 0
    /\ dpc' = "recv"
    /\ UNCHANGED <<webVars, lsnVars, quitCh, sdPrepared, shutDown, cleanupDone, received,
                   receivedClosed, pending, ntf, delivered, consumerClosed, hpc, hn, wslots,
                   stpc>>

\* unnamed/part_007:220-221: the range loop is over, ShutDown = true
DExit ==
    /\ dpc = "exit"
    /\ shutDown' = TRUE
    /\ dpc' = "done"
    /\ UNCHANGED <<webVars, lsnVars, quitCh, sdPrepared, cleanupDone, received,
                   receivedClosed, pending, ntf, delivered, consumerClosed, hpc, hn, dn, nw,
                   wslots, stpc>>

\* ------------------------------- the worker of handleNotifications
\* queue/notification.go:41,46: the delay of an UPDATE elapses and
\* exporter.Export is called
WDelayElapsed(n) ==
    /\ nw[n] = "delay"
    /\ nw' = [nw EXCEPT ![n] = "export"]
    /\ UNCHANGED <<webVars, lsnVars, quitCh, sdPrepared, shutDown, cleanupDone, received,
                   receivedClosed, pending, ntf, delivered, consumerClosed, hpc, hn, dpc, dn,
                   wslots, stpc>>

\* a handler that goes on to export after the quit signal
AfterQuitExports == "export"

\* queue/notification.go:43 with unnamed/part_007:208-217: the error is
\* returned to the worker, which logs it and goes on to its clean-up
AfterQuit == "unpend"

\* queue/notification.go:42: <-n.Quit ends the delay
WQuit(n) ==
    /\ nw[n] = "delay"
    /\ QuitReady(n)
    /\ ntf' = QuitTaken(n)
    /\ nw' = [nw EXCEPT ![n] = "terminated"]
    /\ UNCHANGED <<webVars, lsnVars, quitCh, sdPrepared, shutDown, cleanupDone, received,
                   receivedClosed, pending, delivered, consumerClosed, hpc, hn, dpc, dn,
                   wslots, stpc>>

\* queue/notification.go:43,56: handleNotification returns the "delayed
\* update terminated due to shutdown signal" error, or the "unsupported
\* event type" error; the exporter has not been called
WTerminated(n) ==
    /\ nw[n] \in {"terminated", "unsupported"}
    /\ nw' = [nw EXCEPT ![n] = IF nw[n] = "terminated" THEN AfterQuit ELSE "unpend"]
    /\ UNCHANGED <<webVars, lsnVars, quitCh, sdPrepared, shutDown, cleanupDone, received,
                   receivedClosed, pending, ntf, delivered, consumerClosed, hpc, hn, dpc, dn,
                   wslots, stpc>>

\* queue/notification.go:46-53: exporter.Export or exporter.Delete returns
WCallReturn(n) ==
    /\ nw[n] \in {"export", "delete"}
    /\ nw' = [nw EXCEPT ![n] = "unpend"]
    /\ UNCHANGED <<webVars, lsnVars, quitCh, sdPrepared, shutDown, cleanupDone, received,
                   receivedClosed, pending, ntf, delivered, consumerClosed, hpc, hn, dpc, dn,
                   wslots, stpc>>

\* a test calls handleNotification with a Notification it has built: any
\* event type, a Terminator whose Quit channel may hold a token
HandleCall(n) ==
    /\ nw[n] = "none"
    /\ ~ntf[n].made
    /\ \E evType \in EventTypes, tid \in Tids, quit \in 0..QuitCap :
          /\ ntf' = [ntf EXCEPT ![n] = [made |-> TRUE, tid |-> tid, evType |-> evType,
                                        quit |-> quit, quitClosed |-> FALSE]]
          /\ nw' = [nw EXCEPT ![n] = WorkerEntry(evType)]
    /\ UNCHANGED <<webVars, lsnVars, quitCh, sdPrepared, shutDown, cleanupDone, received,
                   receivedClosed, pending, delivered, consumerClosed, hpc, hn, dpc, dn,
                   wslots, stpc>>

\* unnamed/part_007:215-217: delete(l.pending, notification.Tid) under the lock
WUnpend(n) ==
    /\ nw[n] = "unpend"
    /\ pending' = [pending EXCEPT ![ntf[n].tid] = 0]
    /\ nw' = [nw EXCEPT ![n] = "release"]
    /\ UNCHANGED <<webVars, lsnVars, quitCh, sdPrepared, shutDown, cleanupDone, received,
                   receivedClosed, ntf, delivered, consumerClosed, hpc, hn, dpc, dn, wslots,
                   stpc>>

\* unnamed/part_007:200-202: the deferred <-l.workers; the goroutine ends
\* and nothing refers to the notification any more
WRelease(n) ==
    /\ nw[n] = "release"
    /\ wslots' = wslots - 1
    /\ nw' = [nw EXCEPT ![n] = "done"]
    /\ ntf' = [ntf EXCEPT ![n] = NoNotification]
    /\ UNCHANGED <<webVars, lsnVars, quitCh, sdPrepared, shutDown, cleanupDone, received,
                   receivedClosed, pending, delivered, consumerClosed, hpc, hn, dpc, dn,
                   stpc>>

\* ----------------------------------------------------- Exporter.Export
\* everything but the records of the calls that are followed on their own
stateVars == <<isIncExportEnabled, isFull, hasIds, pc, jobs, runVars, lockWindow, lsnVars,
              quitCh, sdPrepared, shutDown, cleanupDone, received, receivedClosed, pending,
              ntf, delivered, consumerClosed, hpc, hn, dpc, dn, nw, wslots, stpc>>

\* content/export.go:8
DefaultDate == "0000-00-00"
\* the dates a Stub may carry
Dates == {"2024-01-01", "2024-02-02", DefaultDate}
\* the payloads GetContent may return
Contents == {"p1", "p2", "p3"}
\* the nil error
Nil == "nil"
\* the error values of the fetcher and of the updater
CallErrors == {Nil, "err"}

\* fmt.Errorf("<stage>: %w", err)
Wrap(stage, err) == <<stage, err>>

\* an Export that goes on to Upload whatever GetContent returned
UploadsAfterAlways(err) == TRUE

\* content/export.go:29-31: Export returns when GetContent failed
UploadsAfter(err) == err = Nil

\* content/export.go:27: Export(tid, doc) is called
ExporterCall ==
    /\ ~exportCall.made
    /\ \E tid \in Tids, uuid \in UUIDs, date \in Dates :
          exportCall' = [made |-> TRUE, at |-> "GetContent", tid |-> tid,
                         doc |-> [UUID |-> uuid, Date |-> date],
                         fetches |-> <<>>, uploads |-> <<>>,
                         payload |-> None, getErr |-> Nil, upErr |-> Nil, ret |-> None]
    /\ UNCHANGED <<stateVars, mapCall, inquiry>>

\* content/export.go:28-31: e.fetcher.GetContent(doc.UUID, tid) returns
GetContentReturn ==
    /\ exportCall.made
    /\ exportCall.at = "GetContent"
    /\ \E payload \in Contents, err \in CallErrors :
          exportCall' =
            [exportCall EXCEPT
               !.fetches = Append(@, [uuid |-> exportCall.doc.UUID, tid |-> exportCall.tid]),
               !.payload = IF err = Nil THEN Some(payload) ELSE None,
               !.getErr = err,
               !.at = IF UploadsAfter(err) THEN "Upload" ELSE "returned",
               !.ret = IF UploadsAfter(err) THEN None
                       ELSE Some(Wrap("getting content", err))]
    /\ UNCHANGED <<stateVars, mapCall, inquiry>>

\* content/export.go:33-37: e.updater.Upload(payload, tid, doc.UUID,
\* doc.Date) returns
UploadReturn ==
    /\ exportCall.made
    /\ exportCall.at = "Upload"
    /\ \E err \in CallErrors :
          exportCall' =
            [exportCall EXCEPT
               !.uploads = Append(@, [payload |-> exportCall.payload,
                                      tid |-> exportCall.tid,
                                      uuid |-> exportCall.doc.UUID,
                                      date |-> exportCall.doc.Date]),
               !.upErr = err,
               !.at = "returned",
               !.ret = IF err = Nil THEN Some(Nil)
                       ELSE Some(Wrap("uploading content", err))]
    /\ UNCHANGED <<stateVars, mapCall, inquiry>>

\* ----------------------------------------------------- Inquirer.Inquire
\* the documents a cursor may yield: one that Decode rejects, and decoded
\* documents without a uuid, with a string uuid, with a uuid of another type
Documents ==
    {[decodes |-> FALSE, uuid |-> None]}
      \cup {[decodes |-> TRUE, uuid |-> u] :
               u \in {None, Some([type |-> "int32", val |-> "7"])}
                       \cup {Some([type |-> "string", val |-> v]) : v \in UUIDs}}

\* unnamed/part_017:78-89 (mapStub): an error when the document has no uuid
\* field, a panic of the type assertion docUUID.(string) when the field is
\* not a string, otherwise the Stub (its Date, taken from the two date
\* fields of the projection, is not followed here)
mapStub(d) ==
    IF d.uuid = None THEN [stub |-> None, err |-> Some("uuid not found in document"),
                           panic |-> FALSE]
    ELSE IF d.uuid[1].type # "string" THEN [stub |-> None, err |-> None, panic |-> TRUE]
    ELSE [stub |-> Some([UUID |-> d.uuid[1].val, CanBeDistributed |-> None]),
          err |-> None, panic |-> FALSE]

\* unnamed/part_017:35-45: findContent returns and Inquire returns; on
\* success the goroutine of processDocuments is started on the cursor
InquireFind ==
    /\ ~inquiry.made
    /\ \/ inquiry' = [made |-> TRUE, at |-> "failed", all |-> <<>>, cursor |-> <<>>,
                       length |-> 0, stream |-> <<>>, streamClosed |-> 0,
                       cursorClosed |-> 0,
                       ret |-> [docs |-> None, count |-> 0, err |-> "err"]]
       \/ \E cur \in SeqsUpTo(Documents, MaxDocs), length \in 0..MaxDocs :
             inquiry' = [made |-> TRUE, at |-> "Next", all |-> cur, cursor |-> cur,
                         length |-> length, stream |-> <<>>, streamClosed |-> 0,
                         cursorClosed |-> 0,
                         ret |-> [docs |-> Some("docs"), count |-> length, err |-> Nil]]
    /\ UNCHANGED <<stateVars, mapCall, exportCall>>

\* unnamed/part_017:55-70: one iteration of the loop: Next yields a document,
\* Decode and mapStub are applied to it and the stub, if any, is sent
ProcessDocument ==
    /\ inquiry.made
    /\ inquiry.at = "Next"
    /\ inquiry.cursor # <<>>
    /\ LET d == Head(inquiry.cursor)
           m == mapStub(d)
       IN inquiry' =
            [inquiry EXCEPT
               !.cursor = Tail(@),
               !.stream = IF d.decodes /\ m.stub # None THEN Append(@, m.stub[1]) ELSE @,
               !.at = IF d.decodes /\ m.panic THEN "panicking" ELSE "Next"]
    /\ UNCHANGED <<stateVars, mapCall, exportCall>>

\* unnamed/part_017:55,71-75: Next returns false, the loop ends
ProcessEnd ==
    /\ inquiry.made
    /\ inquiry.at = "Next"
    /\ inquiry.cursor = <<>>
    /\ inquiry' = [inquiry EXCEPT !.at = "deferred"]
    /\ UNCHANGED <<stateVars, mapCall, exportCall>>

\* unnamed/part_017:48-51: the deferred function closes docs and the cursor,
\* at the end of the loop and also while a panic unwinds, after which the
\* program exits
ProcessDeferred ==
    /\ inquiry.made
    /\ inquiry.at \in {"deferred", "panicking"}
    /\ inquiry' = [inquiry EXCEPT
                     !.streamClosed = @ + 1,
                     !.cursorClosed = @ + 1,
                     !.at = IF inquiry.at = "panicking" THEN "crashed" ELSE "done"]
    /\ UNCHANGED <<stateVars, mapCall, exportCall>>

\* Export, startExport and the receive loop of RunExport, for streams of
\* at most maxLen stubs
ExportStep(r, maxLen) ==
    \/ ExportBegin(r) \/ CreateJob(r)
    \/ InquireCall(r) \/ InquireError(r) \/ InquireReturn(r, maxLen)
    \/ RunStart(r) \/ RunRecv(r) \/ RunFinish(r)

\* the worker pool of RunExport
PoolStep(r) ==
    \/ RunAcquire(r) \/ RunSpawn(r)
    \/ WorkerCall(r) \/ WorkerReturn(r) \/ WorkerLock(r) \/ WorkerAppend(r)
    \/ WorkerRelease(r)

JobStep(r, maxLen) == ExportStep(r, maxLen) \/ PoolStep(r)

LockStep(r) ==
    \/ LockSend(r) \/ LockSendTimeout(r) \/ AckRecv(r) \/ AckTimeout(r) \/ Unlock(r)

\* The job engine alone: one request, incremental export switched off.
JobInit == Init /\ ~isIncExportEnabled

JobNext == JobStep(1, MaxDocs)

JobSpec == JobInit /\ [][JobNext]_vars

\* The job engine by the length of the stream: the stubs all carry the
\* same uuid and the count is the length of the longest stream.
TermNext ==
    \/ ExportBegin(1) \/ CreateJob(1) \/ InquireCall(1) \/ InquireError(1)
    \/ InquireResult(1, SeqsUpTo({"u1"}, MaxDocs), {MaxDocs})
    \/ RunStart(1) \/ RunRecv(1) \/ RunFinish(1)
    \/ PoolStep(1)

TermSpec == JobInit /\ [][TermNext]_vars

\* The request is made, the stream is closed after its last stub, every
\* call of export returns, and the goroutine of RunExport and its workers
\* take the steps they can take.
TermFairness ==
    /\ WF_vars(ExportBegin(1) \/ CreateJob(1) \/ InquireCall(1) \/ InquireError(1)
                 \/ InquireResult(1, SeqsUpTo({"u1"}, MaxDocs), {MaxDocs})
                 \/ RunStart(1) \/ RunRecv(1) \/ RunFinish(1)
                 \/ RunAcquire(1) \/ RunSpawn(1))
    /\ WF_vars(WorkerCall(1) \/ WorkerReturn(1) \/ WorkerLock(1) \/ WorkerAppend(1)
                 \/ WorkerRelease(1))

TermFairSpec == TermSpec /\ TermFairness

\* The HTTP entry point under concurrent requests, incremental export
\* switched off.
WebNext == \E r \in Requests : JobStep(r, WebDocs)

WebSpec == JobInit /\ [][WebNext]_vars

\* The Locker protocol: concurrent requests against the main loop of
\* Listener.Start, with a Stop whose Quit token may end the loop.  The
\* streams are empty; no message is consumed.
LockNext ==
    \/ \E r \in Requests : ExportStep(r, 0) \/ LockStep(r)
    \/ LStart \/ LPause \/ LAckTimeout \/ LResume
    \/ LQuit \/ LPrepareShutDown \/ LTerminate
    \/ StopSendQuit

LockSpec == Init /\ [][LockNext]_vars

\* Every request handler and the main loop take the steps they can take; a
\* select with a time.After branch does not wait for ever.
LockFairness ==
    /\ \A r \in Requests : WF_vars(ExportStep(r, 0) \/ LockStep(r))
    /\ WF_vars(LStart \/ LPause \/ LAckTimeout \/ LResume
                 \/ LQuit \/ LPrepareShutDown \/ LTerminate)

LockFairSpec == LockSpec /\ LockFairness

\* handleNotification alone, from its call to its return ("unpend" is
\* where the caller goes on).
HandleNext ==
    \E n \in Msgs :
        \/ HandleCall(n)
        \/ WDelayElapsed(n) \/ WQuit(n) \/ WTerminated(n) \/ WCallReturn(n)

HandleSpec == JobInit /\ [][HandleNext]_vars

\* The mapper alone: every mapper is given every message.
MapNext == MapNotification

MapSpec == JobInit /\ [][MapNext]_vars

\* Inquirer.Inquire alone: one call, on every cursor of at most MaxDocs
\* documents and every count the finder may return with it.
InquirerNext == InquireFind \/ ProcessDocument \/ ProcessEnd \/ ProcessDeferred

InquirerSpec == JobInit /\ [][InquirerNext]_vars

\* Exporter.Export alone: one call, with every answer of the fetcher and
\* of the updater.
ExporterNext == ExporterCall \/ GetContentReturn \/ UploadReturn

ExporterSpec == JobInit /\ [][ExporterNext]_vars

MainLoopStep ==
    \/ LStart \/ LPause \/ LAckTimeout \/ LResume
    \/ LQuit \/ LPrepareShutDown \/ LTerminate

StopStep == StopSendQuit \/ StopCloseConsumer \/ StopReturn

HandlerStep(h) ==
    \/ HDeliver(h) \/ HEntry(h) \/ HPauseCond(h) \/ HPauseBody(h) \/ HPolicy(h)
    \/ HInsert(h) \/ HSend(h) \/ HQuit(h) \/ HPost(h)

DispatchStep == DRecv \/ DPauseCond \/ DAcquire \/ DSpawn \/ DExit

NotifyWorkerStep(n) ==
    \/ WDelayElapsed(n) \/ WQuit(n) \/ WTerminated(n) \/ WCallReturn(n) \/ WUnpend(n) \/ WRelease(n)

\* The listener with incremental export enabled, and one export request
\* that goes through the Locker protocol.  The job engine shares no state
\* with the listener, so the request's stream is kept empty here; the worker
\* pool of RunExport is explored under JobSpec and WebSpec.
SysInit == Init /\ isIncExportEnabled

Next ==
    \/ ExportStep(1, 0)
    \/ LockStep(1)
    \/ MainLoopStep
    \/ StopStep
    \/ \E h \in Handlers : HandlerStep(h)
    \/ DispatchStep
    \/ \E n \in Msgs : NotifyWorkerStep(n)

Spec == SysInit /\ [][Next]_vars

\* Every goroutine that can take a step eventually takes one, and a select
\* with a time.After branch does not wait for ever.
Fairness ==
    /\ WF_vars(ExportStep(1, 0) \/ LockStep(1))
    /\ WF_vars(MainLoopStep)
    /\ WF_vars(StopStep)
    /\ \A h \in Handlers : WF_vars(HandlerStep(h))
    /\ WF_vars(DispatchStep)
    /\ \A n \in Msgs : WF_vars(NotifyWorkerStep(n))

FairSpec == Spec /\ Fairness

\* The listener while no shutdown occurs: Stop is never called, so the main
\* loop never leaves its select and no Quit channel ever holds a token.
PauseNext ==
    \/ ExportStep(1, 0)
    \/ LockStep(1)
    \/ LStart \/ LPause \/ LAckTimeout \/ LResume
    \/ \E h \in Handlers :
          \/ HDeliver(h) \/ HEntry(h) \/ HPauseCond(h) \/ HPauseBody(h) \/ HPolicy(h)
          \/ HInsert(h) \/ HSend(h) \/ HPost(h)
    \/ DRecv \/ DPauseCond \/ DAcquire \/ DSpawn
    \/ \E n \in Msgs : WDelayElapsed(n) \/ WCallReturn(n) \/ WUnpend(n) \/ WRelease(n)

PauseSpec == SysInit /\ [][PauseNext]_vars

\* Every goroutine that can take a step eventually takes one; a select with
\* a time.After branch does not wait for ever, and every call of the
\* exporter returns.
PauseFairness ==
    /\ WF_vars(ExportStep(1, 0) \/ LockStep(1))
    /\ WF_vars(LStart \/ LPause \/ LAckTimeout \/ LResume)
    /\ \A h \in Handlers :
          WF_vars(HDeliver(h) \/ HEntry(h) \/ HPauseCond(h) \/ HPauseBody(h) \/ HPolicy(h)
                    \/ HInsert(h) \/ HSend(h) \/ HPost(h))
    /\ WF_vars(DRecv \/ DPauseCond \/ DAcquire \/ DSpawn)
    /\ \A n \in Msgs :
          WF_vars(WDelayElapsed(n) \/ WCallReturn(n) \/ WUnpend(n) \/ WRelease(n))

PauseFairSpec == PauseSpec /\ PauseFairness

\* The listener under a consumer that calls handleMessage from two threads
\* at once.
ConcNext ==
    \/ ExportStep(1, 0)
    \/ LockStep(1)
    \/ MainLoopStep
    \/ StopStep
    \/ \E h \in Callers : HandlerStep(h)
    \/ DispatchStep
    \/ \E n \in Msgs : NotifyWorkerStep(n)

ConcSpec == SysInit /\ [][ConcNext]_vars

\* The listener under load: a sequential consumer delivers BackMsgs
\* messages, each under a transaction id of its own, while an export request
\* may pause the listener.
BackNext ==
    \/ ExportStep(1, 0)
    \/ LockStep(1)
    \/ LStart \/ LPause \/ LAckTimeout \/ LResume
    \/ \E h \in Handlers :
          \/ Deliver(h, BackMsgs) \/ HEntry(h) \/ PauseCond(h, FreshMessages(hn[h]))
          \/ HPauseBody(h) \/ HPolicy(h) \/ HInsert(h) \/ HSend(h) \/ HPost(h)
    \/ DRecv \/ DPauseCond \/ DAcquire \/ DSpawn
    \/ \E n \in AllMsgs : WDelayElapsed(n) \/ WCallReturn(n) \/ WUnpend(n) \/ WRelease(n)

BackSpec == SysInit /\ [][BackNext]_vars

\* The handleMessage calls of a concurrent consumer against the pause and
\* the shutdown sequence, while handleNotifications is not scheduled: the
\* first notification sent stays in received and later sends block in the
\* select.
ShutNext ==
    \/ ExportStep(1, 0)
    \/ LockStep(1)
    \/ MainLoopStep
    \/ StopSendQuit \/ StopCloseConsumer
    \/ \E h \in Callers : HandlerStep(h)

ShutSpec == SysInit /\ [][ShutNext]_vars

\* =================================================================
\* Properties
\* =================================================================

\* the notification workers that have been spawned and have not returned
ActiveWorkers == {n \in Msgs : nw[n] \notin {"none", "done"}}

\* a step in which handleNotifications acquires a slot or spawns a worker
Dispatches ==
    \/ wslots' > wslots
    \/ \E n \in Msgs : nw[n] = "none" /\ nw'[n] # "none"

\* C1 (as claimed): between the initiator's receipt of the acked token and
\* the next send of false on locked, handleNotifications acquires no
\* workers slot and spawns no worker.
C1_LockerSafety == [][lockWindow => ~Dispatches]_vars

\* startExport has called Inquire and the job is not Finished yet
Reading(r) == pc[r] \in {"inquiring", "run", "recv", "acquire", "spawn", "wait"}

\* C2 (as claimed): from the call of Inquire until the job is Finished no
\* notification worker is spawned.
C2_PausedWhileReading ==
    [][(\E r \in Requests : Reading(r))
         => \A n \in Msgs : nw[n] = "none" => nw'[n] = "none"]_vars

\* C4 (as claimed): once Stop() is invoked, the listener eventually reaches
\* its terminal state: received closed, handleNotifications gone, shutDown
\* true and Stop() returned.
C4_ShutdownLiveness ==
    (stpc # "idle") ~>
        (stpc = "returned" /\ shutDown /\ receivedClosed /\ dpc = "done")

\* C5 (as claimed): shutDown is true only when every notification worker
\* that was spawned has returned.
C5_GracefulDrain == shutDown => ActiveWorkers = {}

\* C7: the notification workers spawned and not yet returned, and the slots
\* taken in the workers semaphore, never exceed maxGoRoutines.
C7_ListenerWorkerCap ==
    /\ Cardinality(ActiveWorkers) <= MaxGoRoutines
    /\ wslots <= MaxGoRoutines

\* C7 witness: every slot is taken by a running worker and
\* handleNotifications is blocked on the semaphore with one more
\* notification in hand.
C7_Witness ==
    /\ Cardinality(ActiveWorkers) = MaxGoRoutines
    /\ dpc = "acquire"
    /\ dn # 0

Registered == {r \in Requests : jobs[r].exists}

\* C3 (as claimed): at most one Job with isFullExport = true is in a
\* non-Finished state at any time.
C3_AtMostOneFullExport ==
    Cardinality({r \in Registered : jobs[r].isFullExport /\ jobs[r].Status # FINISHED}) <= 1

\* C6: the workers of a Job that were spawned and have not yet released
\* their slot never outnumber the job's workerCount.
C6_JobWorkerCap ==
    \A r \in Registered : Cardinality(jw[r]) <= jobs[r].nrWorker

\* C6 witness: the pool is full, with a worker still in its throttle sleep
\* and RunExport blocked on the semaphore with the next stub in hand.
C6_Witness ==
    /\ jobs[1].exists
    /\ Cardinality(jw[1]) = jobs[1].nrWorker
    /\ \E w \in jw[1] : w.st = "sleep"
    /\ pc[1] = "acquire"

\* count has been assigned (resources.go:204)
CountSet(r) ==
    /\ jobs[r].exists
    /\ pc[r] \in {"run", "recv", "acquire", "spawn", "wait", "unlock", "done"}
    /\ jobs[r].ErrorMessage = ""

\* C8: progress never decreases and, once count is set and provided the
\* stream emits at most count stubs, |failed| <= progress <= count.
C8_JobMonotonicity ==
    /\ [][\A r \in Requests : jobs[r].exists => jobs'[r].Progress >= jobs[r].Progress]_vars
    /\ [](\A r \in Requests :
            (CountSet(r) /\ total[r] <= jobs[r].Count)
              => /\ Len(jobs[r].Failed) <= jobs[r].Progress
                 /\ jobs[r].Progress <= jobs[r].Count)

\* C8 witness: a finished job whose stream emitted exactly count stubs,
\* at least two of them, one of which failed.
C8_Witness ==
    /\ CountSet(1)
    /\ jobs[1].Status = FINISHED
    /\ total[1] = jobs[1].Count
    /\ jobs[1].Progress >= 2
    /\ Len(jobs[1].Failed) >= 1

StatusOf(js, r) == IF js[r].exists THEN js[r].Status ELSE "none"

\* C9 (as claimed): the only status changes are Starting->Running and
\* Running->Finished.
C9_OnlyTwoTransitions ==
    [][\A r \in Requests :
          StatusOf(jobs, r) \notin {"none", StatusOf(jobs', r)}
            => <<StatusOf(jobs, r), StatusOf(jobs', r)>> \in
                 {<<STARTING, RUNNING>>, <<RUNNING, FINISHED>>}]_vars

\* C9 (amended): the only status changes are Starting->Running,
\* Running->Finished and, when Inquire fails, Starting->Finished together
\* with the error message; the status never moves backward.
C9_StatusTransitions ==
    [][\A r \in Requests :
          StatusOf(jobs, r) \notin {"none", StatusOf(jobs', r)}
            => \/ <<StatusOf(jobs, r), StatusOf(jobs', r)>> \in
                    {<<STARTING, RUNNING>>, <<RUNNING, FINISHED>>}
               \/ /\ <<StatusOf(jobs, r), StatusOf(jobs', r)>> = <<STARTING, FINISHED>>
                  /\ pc[r] = "inquiring"
                  /\ jobs'[r].ErrorMessage # ""]_vars

\* C9 witness: a job that went from Starting straight to Finished.
C9_Witness ==
    /\ jobs[1].exists
    /\ jobs[1].Status = FINISHED
    /\ jobs[1].ErrorMessage # ""
    /\ jobs[1].Progress = 0

CallsFor(r, k) == {c \in calls[r] : c.k = k}
FailedCount(r, u) == Cardinality({i \in DOMAIN jobs[r].Failed : jobs[r].Failed[i] = u})
ErrorCount(r, u) == Cardinality({c \in calls[r] : c.uuid = u /\ c.err})

\* C10: exportFn is called at most once per stub received, always for a
\* received stub; when the job is Finished it has been called exactly
\* once per stub, progress is the number of stubs received and failed holds
\* exactly the uuids whose call returned an error, each once per failure.
C10_PerItemErrors ==
    \A r \in Registered :
        /\ \A c \in calls[r] :
              /\ c.k \in 1..Len(taken[r])
              /\ c.uuid = taken[r][c.k]
        /\ \A k \in 1..Len(taken[r]) : Cardinality(CallsFor(r, k)) <= 1
        /\ jobs[r].Status = FINISHED =>
              /\ \A k \in 1..Len(taken[r]) : Cardinality(CallsFor(r, k)) = 1
              /\ jobs[r].Progress = Len(taken[r])
              /\ docs[r] = <<>>
              /\ \A u \in UUIDs : FailedCount(r, u) = ErrorCount(r, u)

\* the job of request r ended on an error of Inquire (resources.go:196-202)
InquireFailed(r) == jobs[r].exists /\ jobs[r].ErrorMessage # ""

\* C11 (as claimed): when Inquire returns an error the job is Finished with
\* its errorMessage set, exportFn is never called for it, and the snapshot
\* GetJob returns for the job shows status Finished together with that
\* errorMessage.
C11_InquirerFailure ==
    \A r \in Requests :
        InquireFailed(r) =>
            /\ jobs[r].Status = FINISHED
            /\ calls[r] = {}
            /\ jw[r] = {}
            /\ GetJob(r).Status = FINISHED
            /\ GetJob(r).ErrorMessage = jobs[r].ErrorMessage

\* the main loop of Start has left its select for good
LoopGone == lpc \in {"deferred", "terminate", "exited"}

\* the initiator of request r is past the handshake and has not yet sent
\* false on locked
HoldsLock(r) ==
    /\ isIncExportEnabled
    /\ pc[r] \in {"create", "start", "inquiring", "run", "recv", "acquire", "spawn", "wait",
                  "unlock"}

\* C12: the listener is about to send the acked token only with paused
\* set; an initiator gets past the handshake only by receiving that token
\* from the listener; the job is created, and Inquire called, only past the
\* handshake.
C12_HandshakeOrder ==
    /\ [](isIncExportEnabled /\ lpc = "ack" => paused)
    /\ [][isIncExportEnabled =>
            \A r \in Requests :
                /\ (pc[r] # "create" /\ pc'[r] = "create")
                      => /\ pc[r] = "ackWait"
                         /\ lpc = "ack" /\ lpc' = "select"
                         /\ paused
                /\ (~jobs[r].exists /\ jobs'[r].exists) => pc[r] = "create"
                /\ (pc[r] # "inquiring" /\ pc'[r] = "inquiring")
                      => pc[r] = "start" /\ jobs[r].exists]_vars

\* C12 witness: Inquire has been called for a job whose initiator went
\* through the handshake, and the listener is paused.
C12_Witness ==
    /\ isIncExportEnabled
    /\ \E r \in Requests : pc[r] = "inquiring" /\ jobs[r].exists
    /\ paused
    /\ lpc = "select"

\* C13: false is sent on locked only by an initiator that holds the lock
\* and whose job is Finished, the main loop receiving it; every exit of
\* startExport goes through that send, which happens once; an initiator
\* that holds the lock eventually completes the send, and paused then
\* is false once the main loop has handled it, unless the main loop has
\* ended.
C13_LockRelease ==
    /\ [][isIncExportEnabled =>
            \A r \in Requests :
                /\ (pc[r] = "unlock" /\ pc'[r] # "unlock")
                      => /\ jobs[r].Status = FINISHED
                         /\ pc'[r] = "done"
                         /\ lpc = "select" /\ lpc' = "resume"
                /\ (pc[r] # "done" /\ pc'[r] = "done") => pc[r] = "unlock"
                /\ pc[r] = "done" => pc'[r] = "done"
                /\ (jobs[r].exists /\ jobs'[r].Status = FINISHED /\ jobs[r].Status # FINISHED)
                      => pc'[r] = "unlock"]_vars
    /\ \A r \in Requests : HoldsLock(r) ~> (LoopGone \/ (pc[r] = "done" /\ ~paused))

\* C13 witness: two initiators have released the lock, one after an error
\* of Inquire and one after RunExport returned, and the listener has
\* resumed.
C13_Witness ==
    /\ isIncExportEnabled
    /\ \E r, q \in Requests :
          /\ pc[r] = "done" /\ jobs[r].exists /\ jobs[r].ErrorMessage # ""
          /\ pc[q] = "done" /\ jobs[q].exists /\ jobs[q].ErrorMessage = ""
    /\ ~paused
    /\ lpc = "select"

\* C14: an initiator leaves the send of true only by the main loop taking
\* the value or by the 503 answer, and leaves the wait for acked only by
\* receiving the token or by the 503 answer; a request answered 503 has no
\* Job and stays where it is (no Job is created, Inquire is not called).
C14_LockerTimeouts ==
    /\ [](\A r \in Requests : pc[r] = "rejected503" => ~jobs[r].exists)
    /\ [][\A r \in Requests :
            /\ (pc[r] = "lockSend" /\ pc'[r] # "lockSend")
                  => \/ pc'[r] = "ackWait" /\ lpc = "select" /\ lpc' = "pause"
                     \/ pc'[r] = "rejected503" /\ jobs' = jobs
            /\ (pc[r] = "ackWait" /\ pc'[r] # "ackWait")
                  => \/ pc'[r] = "create" /\ lpc = "ack" /\ lpc' = "select"
                     \/ pc'[r] = "rejected503" /\ jobs' = jobs
            /\ pc[r] = "rejected503" => pc'[r] = "rejected503" /\ jobs'[r] = jobs[r]]_vars

\* C14 witness: two requests were answered 503, one of them after the
\* listener had paused for it; no Job is registered.
C14_Witness ==
    /\ \E r, q \in Requests : r # q /\ pc[r] = "rejected503" /\ pc[q] = "rejected503"
    /\ paused
    /\ Registered = {}

\* the status code Export has answered request r with (0: none yet)
Response(r) ==
    CASE pc[r] = "rejected400" -> 400
      [] pc[r] = "rejected503" -> 503
      [] pc[r] \in {"start", "inquiring", "run", "recv", "acquire", "spawn", "wait", "unlock",
                    "done"} -> 202
      [] OTHER -> 0

\* C15: Export answers 400, creating no Job, when GetRunningJobs is not
\* empty, when ids and fullExport=true are both supplied and when neither
\* is; in every other case it goes on to the handshake or to the creation
\* of the Job, where it registers exactly one new Job, in status Starting,
\* and answers 202.
C15_ExportValidation ==
    /\ [](\A r \in Requests : Response(r) = 400 => ~jobs[r].exists)
    /\ [](\A r \in Requests : Response(r) = 202 <=> jobs[r].exists)
    /\ [][\A r \in Requests :
            /\ (Response(r) = 0 /\ Response(r)' = 400)
                  <=> /\ pc[r] = "idle" /\ pc'[r] # "idle"
                      /\ \/ GetRunningJobs # {}
                         \/ hasIds'[r] /\ isFull'[r]
                         \/ ~hasIds'[r] /\ ~isFull'[r]
            /\ Response(r) = 400 => Response(r)' = 400 /\ jobs'[r] = jobs[r]
            /\ (pc[r] = "idle" /\ Response(r)' = 0) => pc'[r] \in {"idle", "lockSend", "create"}
            /\ (pc[r] = "create" /\ pc'[r] # "create") => Response(r)' = 202
            /\ (Response(r) = 0 /\ Response(r)' = 202)
                  => /\ ~jobs[r].exists
                     /\ jobs'[r] = NewJob(GetWorkerCount, isFull[r])
                     /\ jobs'[r].Status = STARTING
                     /\ \A q \in Requests \ {r} : jobs'[q] = jobs[q]]_vars

\* C15 witness: a targeted export was accepted and its job is Running, and
\* another request was answered 400.
C15_Witness ==
    \E r, q \in Requests :
        /\ Response(r) = 202 /\ hasIds[r] /\ ~isFull[r] /\ jobs[r].Status = RUNNING
        /\ Response(q) = 400

\* C10 witness: a finished job of three stubs, the first of which failed
\* and a later one succeeded.
C10_Witness ==
    /\ jobs[1].exists
    /\ jobs[1].Status = FINISHED
    /\ Len(taken[1]) >= 2
    /\ \E c, d \in calls[1] : c.err /\ ~d.err /\ c.k < d.k


\* ---- the mapper rules as section 4.4 of the specification states them,
\* ---- over the mapper m and the message msg of a call
\* the event a body that is JSON holds
EventOf(msg) == msg.Body

\* the entries of payload.publication (none when the field is absent)
PublicationOf(msg) == OrZero(EventOf(msg).Payload.publication, <<>>)

\* rule i of the fixed sequence is violated: 1 synthetic tid, 2 JSON decode,
\* 3 origin allow-list, 4 UUID extraction, 5 content-type allow-list,
\* 6 publication allow-list, 7 distributability
RuleViolated(m, msg, i) ==
    CASE i = 1 -> HasPrefix(msg.tid, <<"SYNTH">>)
      [] i = 2 -> ~msg.Body.json
      [] i = 3 -> msg.Body.json /\ EventOf(msg).ContentURI.origin \notin m.originAllowlist
      [] i = 4 -> /\ msg.Body.json
                  /\ \A k \in DOMAIN EventOf(msg).ContentURI.path :
                        EventOf(msg).ContentURI.path[k] \notin UUIDs
      [] i = 5 -> /\ msg.Body.json
                  /\ OrZero(EventOf(msg).Payload.type, "") \notin m.allowedContentTypes
      [] i = 6 -> /\ msg.Body.json
                  /\ m.allowedPublishUUIDs # {}
                  /\ PublicationOf(msg) # <<>>
                  /\ \A k \in DOMAIN PublicationOf(msg) :
                        PublicationOf(msg)[k] \notin m.allowedPublishUUIDs
      [] i = 7 -> /\ msg.Body.json
                  /\ EventOf(msg).Payload.canBeDistributed \notin {None, Some("yes")}

Rules == 1..7

Violated(m, msg) == {i \in Rules : RuleViolated(m, msg, i)}

FirstViolated(m, msg) == CHOOSE i \in Violated(m, msg) : \A j \in Violated(m, msg) : i <= j

\* the failure that belongs to rule i
FailureOf(i) ==
    CASE i = 1 -> newFilterError("synthetic publication")
      [] i = 2 -> Errorf("error unmarshaling event")
      [] i = 3 -> newFilterError("uri not allowed")
      [] i = 4 -> Errorf("error building notification")
      [] i = 5 -> newFilterError("type not allowed")
      [] i = 6 -> newFilterError("Unsupported publication")
      [] i = 7 -> newFilterError("cannot be distributed")

\* C17 (as claimed): for a message that violates at least one rule,
\* mapNotification returns the failure of the first violated rule of the
\* sequence.
C17_FilterOrdering ==
    mapCall.made =>
        (Violated(mapCall.mapper, mapCall.msg) # {}
           => mapCall.res.err = Some(FailureOf(FirstViolated(mapCall.mapper, mapCall.msg))))

\* C18 (as claimed): the publication rule is applied only when the
\* allow-list is not empty; a message that passes the rules before it is
\* refused with "Unsupported publication" exactly when its publication list
\* is not empty and has no entry in the allowed set; an absent or empty
\* publication field is not refused by this rule.
C18_PublicationAllowList ==
    mapCall.made =>
        ((\A i \in 1..5 : ~RuleViolated(mapCall.mapper, mapCall.msg, i))
           => (mapCall.res.err = Some(newFilterError("Unsupported publication"))
                 <=> RuleViolated(mapCall.mapper, mapCall.msg, 6)))

\* C19 (as claimed): mapNotification returns a Notification or an error,
\* never both and never neither; it returns a Notification exactly when no
\* rule is violated, and the Notification carries the tid of the message,
\* the UUID found in ContentURI and evType DELETE exactly when
\* payload.deleted is true.
C19_NotificationIffAccepted ==
    mapCall.made =>
        /\ (mapCall.res.n = None) # (mapCall.res.err = None)
        /\ mapCall.res.n # None <=> Violated(mapCall.mapper, mapCall.msg) = {}
        /\ mapCall.res.n # None =>
              LET n == mapCall.res.n[1]
                  e == EventOf(mapCall.msg)
              IN /\ n.Tid = mapCall.msg.tid
                 /\ n.Stub.UUID \in UUIDs
                 /\ \E k \in DOMAIN e.ContentURI.path :
                       /\ e.ContentURI.path[k] = n.Stub.UUID
                       /\ \A j \in 1..(k - 1) : e.ContentURI.path[j] \notin UUIDs
                 /\ (n.EvType = DELETE) <=> (e.Payload.deleted = Some(TRUE))
                 /\ n.EvType \in {UPDATE, DELETE}


\* the notifications buffered in Listener.received
Received == {received[i] : i \in DOMAIN received}

\* C16: a message whose policy evaluation failed or answered skip has no
\* entry in pending, is not sent on received, is not dispatched and has no
\* worker (so neither Export nor Delete is called for it), then and ever
\* after; the step in which handleMessage gives the message up changes
\* neither pending nor received.
C16_PolicySkipNeverExports ==
    /\ [](\A n \in Msgs :
            ntf[n] = Refused
              => /\ n \notin Pending
                 /\ n \notin Received
                 /\ dn # n
                 /\ nw[n] = "none"
                 /\ \A h \in Handlers : hn[h] # n)
    /\ [][/\ \A n \in Msgs : ntf[n] = Refused => ntf'[n] = Refused
          /\ \A h \in Handlers :
                (hpc[h] = "policy" /\ hpc'[h] \notin {"policy", "insert"})
                  => /\ hpc'[h] = "idle"
                     /\ ntf'[hn[h]] = Refused
                     /\ UNCHANGED <<pending, received, nw>>]_vars

\* C16 witness: the policy evaluation refused the first message; the
\* second one passed it and its worker is calling the exporter.
C16_Witness ==
    /\ ntf[1] = Refused
    /\ nw[2] \in {"export", "delete"}

\* C20: the worker of an UPDATE leaves the delay either through <-n.Quit,
\* and then handleNotification returns the error and Export is not called
\* for the notification, or through the timer, and then Export is called;
\* Export is entered only from the delay and never a second time.
C20_QuitDuringDelay ==
    [][\A n \in Msgs :
          /\ (nw[n] = "delay" /\ nw'[n] # "delay")
                => \/ nw'[n] = "terminated" /\ QuitReady(n)
                   \/ nw'[n] = "export"
          /\ (nw[n] # "export" /\ nw'[n] = "export") => nw[n] = "delay"
          /\ nw[n] = "terminated" => nw'[n] \in {"terminated", "unpend"}
          /\ nw[n] = "export" => nw'[n] \in {"export", "unpend"}
          /\ nw[n] \in {"unpend", "release", "done"}
                => nw'[n] \in {"unpend", "release", "done"}]_vars

\* C20 witness: shutdown was prepared while the worker of an UPDATE was in
\* its delay, and the worker has returned the error.
C20_Witness ==
    /\ sdPrepared
    /\ \E n \in Msgs : nw[n] = "terminated"

\* the handler of notification n has been entered and has not returned
Handling(n) == nw[n] \in {"delay", "export", "delete", "terminated", "unsupported"}

\* C21: for a DELETE, handleNotification calls exporter.Delete once, as its
\* first step (no delay, no receive from Quit), and never exporter.Export
\* (the only caller of GetContent and Upload); for an event type other than
\* UPDATE and DELETE it returns an error without any of these calls.
C21_DeleteImmediate ==
    /\ [](\A n \in Msgs :
            Handling(n) =>
                /\ nw[n] = "delete" => ntf[n].evType = DELETE
                /\ nw[n] \in {"delay", "export", "terminated"} => ntf[n].evType = UPDATE
                /\ nw[n] = "unsupported" => ntf[n].evType \notin {UPDATE, DELETE})
    /\ [][\A n \in Msgs :
            /\ (~Handling(n) /\ Handling(n)' /\ ntf'[n].evType = DELETE)
                  => nw'[n] = "delete"
            /\ (nw[n] # "delete" /\ nw'[n] = "delete") => ~Handling(n)
            /\ nw[n] = "delete"
                  => nw'[n] \in {"delete", "unpend"} /\ ntf'[n] = ntf[n]
            /\ (~Handling(n) /\ Handling(n)' /\ ntf'[n].evType \notin {UPDATE, DELETE})
                  => nw'[n] = "unsupported"
            /\ nw[n] = "unsupported"
                  => nw'[n] \in {"unsupported", "unpend"} /\ ntf'[n] = ntf[n]
            /\ nw[n] = "unpend" => nw'[n] = "unpend"]_vars

\* C21 witness: the handler of a DELETE whose Quit channel holds a token
\* has returned from exporter.Delete with the token still there, while the
\* handler of an unsupported event is about to return its error.
C21_Witness ==
    \E n, m \in Msgs :
        /\ nw[n] = "unpend" /\ ntf[n].evType = DELETE /\ ntf[n].quit = 1
        /\ nw[m] = "unsupported"
\* handleMessage has accepted notification n for dispatch: it is past the
\* policy check and has made the insert into pending
Accepted(n) ==
    /\ ntf[n].made
    /\ \A h \in Handlers : hn[h] = n => hpc[h] \in {"send", "post"}

\* the worker of notification n has returned, or is past its delete from
\* pending
WorkerReturned(n) == nw[n] \in {"release", "done"}

\* C22 (as claimed): a Notification is in pending iff it has been accepted
\* for dispatch by handleMessage and its worker has not yet returned.
C22_PendingIffInFlight ==
    \A n \in Msgs : n \in Pending <=> (Accepted(n) /\ ~WorkerReturned(n))
\* C23 (as claimed): once the main loop of Start has exited on quit and
\* terminatePendingNotifications has run, every Notification in flight has
\* been given a quit token: the handler of each one that is, or will be,
\* in the delay of an UPDATE can receive from Quit and so return without
\* waiting and without exporting.
C23_ShutdownQuitsInFlight ==
    lpc = "exited" =>
        \A n \in Msgs :
            (Accepted(n) /\ nw[n] \in {"none", "delay"}) => QuitReady(n)
\* handleMessage is inside its pause loop with message n
InPauseLoop(n) == \E h \in Handlers : hn[h] = n /\ hpc[h] = "pauseBody"

\* message n was refused by the mapper or by the policy check
Rejected(n) == ~ntf[n].made /\ nw[n] = "none" /\ \A h \in Handlers : hn[h] # n

\* the export that paused the listener is over and the listener has
\* handled the send of false on locked
Resumed == pc[1] = "done" /\ ~paused

\* C24: while no shutdown occurs, handleMessage keeps a message that it
\* holds in its pause loop, and leaves the loop only by reading paused =
\* false, which takes it to the mapper; once the listener has been resumed,
\* every message delivered so far, those held in the pause loop included,
\* is eventually refused by the mapper or the policy check, or else
\* inserted into pending, sent on received and given to a worker.
C24_NoEventLostToPause ==
    /\ [][\A h \in Handlers :
            /\ hpc[h] = "pauseBody"
                  => hn'[h] = hn[h] /\ hpc'[h] \in {"pauseBody", "pauseCond"}
            /\ (hpc[h] = "pauseCond" /\ paused)
                  => hn'[h] = hn[h] /\ hpc'[h] \in {"pauseCond", "pauseBody"}
            /\ (hpc[h] = "insert" /\ hpc'[h] # "insert")
                  => hpc'[h] = "send" /\ hn'[h] = hn[h] /\ hn[h] \in Pending'
            /\ (hpc[h] = "send" /\ hpc'[h] # "send")
                  => hn[h] \in Received']_vars
    /\ [](\A n \in Msgs : (InPauseLoop(n) /\ ~paused) => (Resumed /\ n <= delivered))
    /\ Resumed ~> (\A n \in 1..delivered : Rejected(n) \/ nw[n] # "none")

\* C24 witness: the export is over and the listener has been resumed
\* while handleMessage still holds the first message in its pause loop.
C24_Witness ==
    /\ pc[1] = "done" /\ jobs[1].exists
    /\ ~paused
    /\ InPauseLoop(1)

\* C25 (as claimed): in a state where paused is true handleMessage inserts
\* no Notification into pending and sends none on received.
C25_NoWorkWhilePaused ==
    [][paused =>
         /\ \A t \in AllTids : pending'[t] \in {pending[t], 0}
         /\ Len(received') <= Len(received)]_vars
\* RunExport is running for the job of request r
InRunExport(r) == pc[r] \in {"run", "recv", "acquire", "spawn", "wait"}

\* C26: a job is Finished only with the stub stream drained and closed and
\* no worker of it alive (none sleeping, none inside exportFn, none about
\* to record a failure); RunExport sets Finished from its Wait only, with
\* the counter at zero; while a job is Finished its progress and its
\* failed list do not change.
C26_CompletionBarrier ==
    /\ [](\A r \in Registered :
            jobs[r].Status = FINISHED
              => /\ jw[r] = {}
                 /\ wg[r] = 0
                 /\ docs[r] = <<>>
                 /\ ~InRunExport(r))
    /\ [][\A r \in Requests :
            /\ (InRunExport(r) /\ jobs[r].Status # FINISHED /\ jobs'[r].Status = FINISHED)
                  => pc[r] = "wait" /\ docs[r] = <<>> /\ jw[r] = {}
            /\ (jobs[r].exists /\ jobs[r].Status = FINISHED)
                  => /\ jobs'[r].Progress = jobs[r].Progress
                     /\ jobs'[r].Failed = jobs[r].Failed
                     /\ jobs'[r].Status = FINISHED]_vars

\* C26 witness: RunExport has set Finished after a stream that kept every
\* worker slot busy, with failures recorded.
C26_Witness ==
    /\ jobs[1].exists
    /\ jobs[1].Status = FINISHED
    /\ jobs[1].Progress > NrOfWorkers
    /\ Len(jobs[1].Failed) = jobs[1].Progress

\* C27: under fair scheduling, with the stream closed after its last stub
\* and every exportFn call returning, a RunExport that has started
\* eventually returns with the job Finished.
C27_RunExportTerminates ==
    (jobs[1].exists /\ pc[1] = "run")
        ~> (jobs[1].exists /\ jobs[1].Status = FINISHED /\ ~InRunExport(1) /\ jw[1] = {})

\* C27 witness: RunExport has returned for a stream longer than the
\* number of workers, on which calls failed and calls succeeded.
C27_Witness ==
    /\ jobs[1].exists
    /\ pc[1] = "done"
    /\ jobs[1].Status = FINISHED
    /\ Len(taken[1]) > NrOfWorkers
    /\ \E c, d \in calls[1] : c.err /\ ~d.err
    /\ jobs[1].Count = MaxDocs

\* the positions of RunExport at which its goroutine holds job.lock: the
\* function has no Lock call of its own (healthcheck.go:281-298)
RunExportLocked == {}

\* C28 (as claimed): every step that changes a Job's progress or its
\* failed list is taken by a goroutine that holds the job's lock: a worker
\* holding it for an append to failed, RunExport holding it for the
\* increment of progress.
C28_JobLockDiscipline ==
    [][\A r \in Requests :
          jobs[r].exists =>
              /\ jobs'[r].Failed # jobs[r].Failed
                    => \E w \in LockHolders(r) : jobs'[r].Failed = Append(jobs[r].Failed, w.uuid)
              /\ jobs'[r].Progress # jobs[r].Progress
                    => pc[r] \in RunExportLocked]_vars

\* C29: RunExport takes the stubs off the stream in the order the stream
\* has them, and for each in turn acquires a slot, increments progress and
\* spawns the worker before it takes the next: the k-th increment of
\* progress spawns the worker of the k-th stub of the stream.
C29_DispatchOrder ==
    /\ [](\A r \in Registered :
            /\ \A w \in jw[r] : w.k \in 1..jobs[r].Progress /\ w.uuid = taken[r][w.k]
            /\ Len(taken[r]) - jobs[r].Progress
                  = IF pc[r] \in {"acquire", "spawn"} THEN 1 ELSE 0)
    /\ [][\A r \in Requests :
            /\ InRunExport(r) => taken'[r] \o docs'[r] = taken[r] \o docs[r]
            /\ (jobs[r].exists /\ jobs'[r].Progress # jobs[r].Progress)
                  => /\ jobs'[r].Progress = jobs[r].Progress + 1
                     /\ Len(taken[r]) = jobs'[r].Progress
                     /\ jw'[r] \ jw[r] = {[k |-> jobs'[r].Progress,
                                           uuid |-> taken[r][jobs'[r].Progress],
                                           st |-> "sleep"]}]_vars

\* C29 witness: the call for the second stub has returned while the worker
\* of the first stub has not called exportFn yet.
C29_Witness ==
    /\ jobs[1].exists
    /\ \E c \in calls[1] : c.k = 2
    /\ \E w \in jw[1] : w.k = 1 /\ w.st = "sleep"
    /\ taken[1][1] # taken[1][2]
\* the notifications that handleMessage is sending or has sent on received
\* and that handleNotifications has not yet given to a worker
Undispatched ==
    {hn[h] : h \in {g \in Handlers : hpc[g] = "send"}} \cup Received \cup ({dn} \ {0})

C31_StopOrdering == consumerClosed => shutDown

\* a handleMessage call that is about to invoke cleanup
AtCleanup(h) == sdPrepared /\ hpc[h] \in {"entry", "pauseBody", "post"}

\* C32: received is closed at most once (no call ever closes the closed
\* channel, which would panic), it is closed by the first cleanup, and a
\* cleanup invoked after the first changes neither received nor the latch,
\* whether the calls observe shutDownPrepared one after the other or at
\* the same time.
C32_OneShotCleanup ==
    /\ [](\A h \in Callers : hpc[h] # "closePanic")
    /\ [](cleanupDone <=> receivedClosed)
    /\ [][cleanupDone => (cleanupDone' /\ receivedClosed')]_vars
    /\ [][\A h \in Callers :
            (cleanupDone /\ AtCleanup(h) /\ hpc'[h] # hpc[h])
              => (hpc'[h] = "idle" /\ received' = received)]_vars
    /\ [][(receivedClosed' /\ ~receivedClosed)
            => (~cleanupDone /\ \E h \in Callers : AtCleanup(h) /\ hpc'[h] = "idle")]_vars

\* C32 witness: one call has closed received and has returned while another
\* call, which ran concurrently with it, has reached its own cleanup after
\* the send.
C32_Witness ==
    /\ cleanupDone /\ receivedClosed
    /\ \E h, g \in Callers : hpc[h] = "idle" /\ AtCleanup(g) /\ hpc[g] = "post"

\* C33: a handleMessage call that finds shutDownPrepared set on entry runs
\* the cleanup and returns in the same step: received is closed afterwards,
\* no notification is made of the message (nothing is mapped, no policy is
\* asked), pending is not changed and nothing is sent on received.
C33_NoWorkAfterShutdownPrepared ==
    [][\A h \in Callers :
          (sdPrepared /\ hpc[h] = "entry" /\ hpc'[h] # "entry")
            => /\ hpc'[h] = "idle"
               /\ cleanupDone' /\ receivedClosed'
               /\ ntf' = ntf /\ ~ntf[hn[h]].made
               /\ pending' = pending
               /\ received' = received]_vars

\* C33 witness: received is closed although no export request was made (no
\* call was ever in the pause loop) and no notification was made (no call
\* reached the send): a call that found shutDownPrepared set on entry has
\* closed it and has returned.
C33_Witness ==
    /\ sdPrepared /\ cleanupDone /\ receivedClosed
    /\ delivered = 2
    /\ \A h \in Callers : hpc[h] = "idle"
    /\ \A n \in Msgs : ntf[n] = NoNotification
    /\ pending = [t \in AllTids |-> 0] /\ received = <<>>
    /\ pc[1] = "idle"

\* C34: Export calls GetContent once, first, with the stub's uuid and the
\* tid; it calls Upload at most once and only after GetContent succeeded,
\* with the payload fetched, the tid and the stub's uuid and date; when
\* GetContent failed Upload is not called and Export returns an error;
\* Export returns nil iff both calls succeeded.
C34_ExportSequence ==
    exportCall.made =>
        LET c == exportCall
        IN /\ Len(c.fetches) <= 1 /\ Len(c.uploads) <= 1
           /\ c.at # "GetContent" =>
                 c.fetches = <<[uuid |-> c.doc.UUID, tid |-> c.tid]>>
           /\ c.uploads # <<>> =>
                 /\ c.fetches # <<>> /\ c.getErr = Nil /\ c.payload # None
                 /\ c.uploads[1] = [payload |-> c.payload, tid |-> c.tid,
                                    uuid |-> c.doc.UUID, date |-> c.doc.Date]
           /\ c.getErr # Nil => (c.uploads = <<>> /\ c.at = "returned" /\ c.ret # Some(Nil))
           /\ c.at = "returned" =>
                 /\ c.ret # None
                 /\ c.ret = Some(Nil) <=>
                       (c.getErr = Nil /\ c.uploads # <<>> /\ c.upErr = Nil)

\* C34 witness: GetContent has failed and Export has returned.
C34_Witness ==
    /\ exportCall.made
    /\ exportCall.at = "returned"
    /\ exportCall.getErr # Nil

\* the stubs of the documents of a cursor that decode and contain a uuid,
\* in the order of the cursor
RECURSIVE StubsOf(_)
StubsOf(cur) ==
    IF cur = <<>> THEN <<>>
    ELSE LET d == Head(cur)
         IN IF d.decodes /\ d.uuid # None
            THEN <<[UUID |-> d.uuid[1].val, CanBeDistributed |-> None]>> \o StubsOf(Tail(cur))
            ELSE StubsOf(Tail(cur))

\* C35 (as claimed): when processDocuments is over, the stream holds
\* exactly the stubs of the documents of the cursor that decode and contain
\* a uuid, in cursor order, and the stream and the cursor have been closed
\* once each; the stubs emitted never outnumber the count returned with the
\* stream; when the finder fails Inquire returns no stream, count 0 and the
\* error.
C35_InquirerStream ==
    inquiry.made =>
        /\ inquiry.at \in {"done", "crashed"} =>
              /\ inquiry.stream = StubsOf(inquiry.all)
              /\ inquiry.streamClosed = 1
              /\ inquiry.cursorClosed = 1
        /\ inquiry.at # "failed" => Len(inquiry.stream) <= inquiry.ret.count
        /\ inquiry.at = "failed" =>
              /\ inquiry.ret = [docs |-> None, count |-> 0, err |-> "err"]
              /\ inquiry.stream = <<>>

\* C36 (as claimed): no handleMessage call is at its send on received
\* (part_007:175), about to send or blocked in it, once received has been
\* closed, and none panics by sending on the closed channel.
C36_NoSendOnClosed ==
    \A h \in Callers : receivedClosed => hpc[h] \notin {"send", "panic"}

\* the listener is paused and waits in its select, a request was answered
\* 503 and no initiator holds the lock: the handshake that set paused was
\* given up
Abandoned ==
    /\ paused
    /\ lpc = "select"
    /\ \E r \in Requests : pc[r] = "rejected503"
    /\ \A r \in Requests : ~HoldsLock(r)

\* C37 (as claimed): after an abandoned handshake paused eventually
\* becomes false again, as long as the main loop is running.
C37_AbandonedHandshakeResumes == Abandoned ~> (~paused \/ LoopGone)

\* C38: the step that answers 400 is the first of its request, it changes
\* neither the position of the main loop nor paused nor the lock, and the
\* request takes no step afterwards; the main loop receives true on locked
\* only from a request that was not answered 400.
C38_RejectedRequestFrame ==
    [][/\ \A r \in Requests :
             /\ (pc[r] # "rejected400" /\ pc'[r] = "rejected400")
                   => /\ pc[r] = "idle"
                      /\ lpc' = lpc /\ paused' = paused /\ lockWindow' = lockWindow
             /\ pc[r] = "rejected400" => pc'[r] = "rejected400"
       /\ (lpc # "pause" /\ lpc' = "pause")
             => \E r \in Requests : pc[r] = "lockSend" /\ pc'[r] = "ackWait"]_vars

\* C38 witness: a request was answered 400 for supplying both ids and the
\* fullExport flag while the listener is paused for the job of another
\* request, which is still running.
C38_Witness ==
    /\ isIncExportEnabled
    /\ paused
    /\ \E r, q \in Requests :
          /\ pc[r] = "rejected400" /\ isFull[r] /\ hasIds[r]
          /\ HoldsLock(q) /\ jobs[q].exists /\ jobs[q].Status # FINISHED

\* C39: with a sequential consumer pending never holds more than
\* maxGoRoutines + 3 entries.
C39_BackpressureBound == Cardinality(Pending) <= MaxGoRoutines + 3

\* C39 witness: pending holds maxGoRoutines + 3 entries: every slot is
\* taken by a worker, handleNotifications waits for a slot with a
\* notification in hand, received is full and handleMessage is blocked in
\* its send.
C39_Witness ==
    /\ Cardinality(Pending) = MaxGoRoutines + 3
    /\ Cardinality({n \in AllMsgs : nw[n] \notin {"none", "done"}}) = MaxGoRoutines
    /\ dpc = "acquire" /\ dn # 0
    /\ Len(received) = ReceivedCap
    /\ \E h \in Handlers : hpc[h] = "send"

\* C40 (as claimed): with incremental export enabled, once the job of a
\* request is Finished and startExport is at its send of false on locked,
\* the send is eventually accepted and startExport ends, whatever the main
\* loop of the listener has done meanwhile.
C40_StartExportTerminates ==
    \A r \in Requests :
        (pc[r] = "unlock" /\ jobs[r].exists /\ jobs[r].Status = FINISHED) ~> (pc[r] = "done")

====
